---- MODULE Spec2Model ----
(***************************************************************************)
(* A model of the yo coding agent: the permission policy engine            *)
(* (src/src/policy.rs), the tool pattern matcher (src/src/tool_filter.rs), *)
(* the path containment check (src/src/tools/mod.rs), the MCP transport    *)
(* and client (src/src/mcp), the agent turn loop (src/src/agent.rs) and    *)
(* the subagent runtime (src/src/subagent.rs).                             *)
(*                                                                         *)
(* Strings are TLA+ strings; Option<T> is a sequence of length 0 or 1.     *)
(***************************************************************************)
EXTENDS Integers, Sequences, FiniteSets, TLC

VARIABLES
    policy,      \* the session PolicyEngine's PermissionsConfig: mode, allow, ask, deny
    lastDecide,  \* history: the latest decide() since the engine was last mutated
    engine_print_mode, \* the session PolicyEngine's print_mode (-p)
    engine_auto_yes,   \* the session PolicyEngine's auto_yes (--yes)
    lastCheck,   \* history: the latest check_permission since the engine was last mutated
    lastMatch,   \* history: the latest call of a pattern matcher and what it returned
    fsLink,      \* the filesystem layout: where the symlink root/link points
    vp,          \* history: the latest validate_path call and what it returned
    request_id,  \* McpClient.request_id, the id of the next request
    srvInbox,    \* stdio server: ids of the requests read from stdin and not yet answered
    srvStdout,   \* stdio server: lines written to stdout and not yet read by the reader thread
    response_rx, \* StdioTransport.response_rx: messages the reader thread has forwarded
    rpcPc,       \* McpClient::call: "idle", or "recv" while blocked in recv_timeout
    rpcCur,      \* the id of the request McpClient::call is sending
    rpcRet,      \* history: what the latest McpClient::call got back from the transport
    cfgMode,     \* ctx.config.permissions.mode, set once at startup
    plan_mode,   \* ctx.plan_mode: the phase and the current plan (None or Some(plan))
    maxTurnsArg, \* ctx.args.max_turns: None or Some(k)
    messages,    \* the session's messages list
    pc,          \* where run_turn is: "idle", "llm", "tool", "sub_llm", "sub_tool", "sub_end", "stop"
    iteration,   \* run_turn's loop variable
    llmCalls,    \* history: LLM calls made by the main loop in the current turn
    tool_calls,  \* the call ids of the assistant message being handled
    tcIdx,       \* the position in tool_calls of the call being handled
    nextCallId,  \* the id the model gives its next tool call in the main loop
    lastTool,    \* history: the tool call handled last since the latest LLM call, and its result
    turn,        \* history: how the current or latest turn went
    sub,         \* the running subagent invocation: None or Some(record)
    active_skills, \* ctx.active_skills: the names of the activated skills
    overflow_checks, \* the build: TRUE when integer overflow panics, FALSE when it wraps
    stats_self,  \* a CommandStats that merge is called on: Some(stats), None once merge panicked
    merged,      \* history: the value stats_self began with and the stats merged into it since
    advertised,  \* the McpToolDefs of the connected servers, as list_tools built them
    lastRoute,   \* history: the latest split of a tool name at its dots, and the def it named
    sse,         \* SseTransport::parse_sse_response: its locals, its result, and the events sent
    proc,        \* a transport: its child process, the stdout pipe, the reader thread, drop
    health,      \* history: the health checks made, each with whether the child had exited
    hs,          \* the handshake of a client with a stdio server: both ends and what was sent
    pfs,         \* the filesystem the Patch tool works on: path -> directory or file with content
    lastPatch,   \* history: the latest Patch call, its arguments and its result
    efile,       \* the file the Edit tool works on: its content and whether it may be written
    lastEdit,    \* history: the latest Edit call, the content before it and its result
    chat,        \* the messages of a conversation with the content of each
    chatPc,      \* where run_turn stands in that conversation
    chatStart,   \* the length of chat when the current turn began
    chatIter,    \* the iteration of the loop in that turn
    lastStop,    \* the last call of the stop hook: its last assistant text
    held,        \* the RefCell borrows that are live, oldest first, each with the frame that took it
    frames,      \* the call stack on the path of a turn: the routine and the next operation of each frame
    panicked,    \* whether a borrow found its RefCell already borrowed
    ptable,      \* the PricingTable in use: its entries in the order its HashMap iterates them
    lookups      \* the lookups made so far: model name and the pricing selected

polVars ==
    <<policy, lastDecide, engine_print_mode, engine_auto_yes, lastCheck, lastMatch>>

pathVars == <<fsLink, vp>>

rpcVars == <<request_id, srvInbox, srvStdout, response_rx, rpcPc, rpcCur, rpcRet>>

agentVars ==
    <<cfgMode, plan_mode, maxTurnsArg, messages, pc, iteration, llmCalls, tool_calls, tcIdx,
      nextCallId, lastTool, turn, sub, active_skills>>

statVars == <<overflow_checks, stats_self, merged>>

toolVars == <<advertised, lastRoute>>

sseVars == <<sse>>

procVars == <<proc, health>>

hsVars == <<hs>>

patchVars == <<pfs, lastPatch>>

editVars == <<efile, lastEdit>>

stopVars == <<chat, chatPc, chatStart, chatIter, lastStop>>

borrowVars == <<held, frames, panicked>>

priceVars == <<ptable, lookups>>

auxVars == <<statVars, toolVars, sseVars, procVars, hsVars, patchVars, editVars, stopVars, borrowVars, priceVars>>

\* What the actions of one of these components leave alone.
notStats == <<toolVars, sseVars, procVars, hsVars, patchVars, editVars, stopVars, borrowVars, priceVars, polVars, pathVars, rpcVars, agentVars>>

notTools == <<statVars, sseVars, procVars, hsVars, patchVars, editVars, stopVars, borrowVars, priceVars, polVars, pathVars, rpcVars, agentVars>>

notSse == <<statVars, toolVars, procVars, hsVars, patchVars, editVars, stopVars, borrowVars, priceVars, polVars, pathVars, rpcVars, agentVars>>

notProc == <<statVars, toolVars, sseVars, hsVars, patchVars, editVars, stopVars, borrowVars, priceVars, polVars, pathVars, rpcVars, agentVars>>

notHs == <<statVars, toolVars, sseVars, procVars, patchVars, editVars, stopVars, borrowVars, priceVars, polVars, pathVars, rpcVars, agentVars>>

notPatch == <<statVars, toolVars, sseVars, procVars, hsVars, editVars, stopVars, borrowVars, priceVars, polVars, pathVars, rpcVars, agentVars>>

notEdit == <<statVars, toolVars, sseVars, procVars, hsVars, patchVars, stopVars, borrowVars, priceVars, polVars, pathVars, rpcVars, agentVars>>

notStop == <<statVars, toolVars, sseVars, procVars, hsVars, patchVars, editVars, borrowVars, priceVars, polVars, pathVars, rpcVars, agentVars>>

notBorrow == <<statVars, toolVars, sseVars, procVars, hsVars, patchVars, editVars, stopVars, priceVars, polVars, pathVars, rpcVars, agentVars>>

notPrice == <<statVars, toolVars, sseVars, procVars, hsVars, patchVars, editVars, stopVars, borrowVars, polVars, pathVars, rpcVars, agentVars>>

vars == <<polVars, pathVars, rpcVars, agentVars, auxVars>>

---------------------------------------------------------------------------
(* String helpers: str::starts_with, ends_with, find, rfind, strip_prefix   *)

None == <<>>

Some(x) == <<x>>

StartsWith(s, p) == Len(p) <= Len(s) /\ SubSeq(s, 1, Len(p)) = p

EndsWith(s, p) == Len(p) <= Len(s) /\ SubSeq(s, Len(s) - Len(p) + 1, Len(s)) = p

\* str::find(ch) scanning from position i: the 1-based index of the first
\* occurrence of ch at or after i, 0 when absent
RECURSIVE FindFrom(_, _, _)
FindFrom(s, ch, i) ==
    IF i > Len(s) THEN 0
    ELSE IF SubSeq(s, i, i) = ch THEN i
    ELSE FindFrom(s, ch, i + 1)

Find(s, ch) == FindFrom(s, ch, 1)

\* str::rfind(ch) scanning down from position i, 0 when absent
RECURSIVE RFindFrom(_, _, _)
RFindFrom(s, ch, i) ==
    IF i < 1 THEN 0
    ELSE IF SubSeq(s, i, i) = ch THEN i
    ELSE RFindFrom(s, ch, i - 1)

RFind(s, ch) == RFindFrom(s, ch, Len(s))

\* s with its first n characters removed
DropFirst(s, n) == SubSeq(s, n + 1, Len(s))

\* s with its last n characters removed
DropLast(s, n) == SubSeq(s, 1, Len(s) - n)

---------------------------------------------------------------------------
(* Permission modes and tool categories                                    *)

Modes == {"default", "acceptEdits", "bypassPermissions"}

ToolCategoryOf(name) ==
    IF name \in {"Read", "Grep", "Glob"} THEN "ReadOnly"
    ELSE IF name \in {"Write", "Edit"} THEN "Mutation"
    ELSE IF name = "Bash" THEN "Execution"
    ELSE IF StartsWith(name, "mcp.") THEN "Execution"
    ELSE "Execution"

DEFAULT_DENY_PATTERNS == <<"Bash(curl:*)", "Bash(wget:*)">>

\* The JSON arguments of a tool call: a record of string fields.
EmptyArgs == [k \in {} |-> ""]

GetStr(args, key) == IF key \in DOMAIN args THEN Some(args[key]) ELSE None

extract_tool_arg(tool, args) ==
    IF tool = "Bash" THEN GetStr(args, "command")
    ELSE IF tool \in {"Write", "Edit", "Read"} THEN GetStr(args, "path")
    ELSE IF tool \in {"Grep", "Glob"} THEN GetStr(args, "pattern")
    ELSE None

\* The "(...)" branch of rule_matches, entered when the pattern holds a '('.
RuleArgMatches(pattern, tool, arg) ==
    LET open_paren  == Find(pattern, "(")
        rule_tool   == SubSeq(pattern, 1, open_paren - 1)
        r           == RFind(pattern, ")")
        close_paren == IF r = 0 THEN Len(pattern) + 1 ELSE r
        arg_pattern == SubSeq(pattern, open_paren + 1, close_paren - 1)
    IN  IF rule_tool # tool THEN FALSE
        ELSE IF arg = None THEN FALSE
        ELSE IF EndsWith(arg_pattern, ":*")
             THEN StartsWith(arg[1], DropLast(arg_pattern, 2))
             ELSE arg_pattern = arg[1]

\* The ".*" branch of rule_matches: a dot-bounded prefix of an mcp. tool name.
RuleWildcardMatches(pattern, tool) ==
    /\ EndsWith(pattern, ".*")
    /\ StartsWith(tool, "mcp.")
    /\ LET prefix == DropLast(pattern, 2)
       IN  /\ StartsWith(tool, prefix)
           /\ LET remaining == DropFirst(tool, Len(prefix))
              IN  remaining = "" \/ StartsWith(remaining, ".")

rule_matches(pattern, tool, arg) ==
    IF pattern = tool THEN TRUE
    ELSE IF RuleWildcardMatches(pattern, tool) THEN TRUE
    ELSE IF Find(pattern, "(") # 0 THEN RuleArgMatches(pattern, tool, arg)
    ELSE FALSE

\* A `for rule in rules { if rule_matches(..) { return .. } }` loop: the index
\* of the first matching rule from position i on, 0 when the loop falls through.
RECURSIVE FirstMatchFrom(_, _, _, _)
FirstMatchFrom(rules, i, tool, arg) ==
    IF i > Len(rules) THEN 0
    ELSE IF rule_matches(rules[i], tool, arg) THEN i
    ELSE FirstMatchFrom(rules, i + 1, tool, arg)

FirstMatch(rules, tool, arg) == FirstMatchFrom(rules, 1, tool, arg)

\* Step 5 of decide: the mode-based default.
ModeDefault(mode, tool) ==
    IF mode = "bypassPermissions" THEN "Allow"
    ELSE IF mode = "acceptEdits"
         THEN (IF ToolCategoryOf(tool) = "Execution" THEN "Ask" ELSE "Allow")
         ELSE (IF ToolCategoryOf(tool) = "ReadOnly" THEN "Allow" ELSE "Ask")

DecideAllowBeforeAsk(cfg, tool, args) ==
    LET arg == extract_tool_arg(tool, args)
        b   == FirstMatch(DEFAULT_DENY_PATTERNS, tool, arg)
        d   == FirstMatch(cfg.deny, tool, arg)
        a   == FirstMatch(cfg.ask, tool, arg)
        l   == FirstMatch(cfg.allow, tool, arg)
    IN  IF b > 0 THEN [decision |-> "Deny", rule |-> Some(DEFAULT_DENY_PATTERNS[b])]
        ELSE IF d > 0 THEN [decision |-> "Deny", rule |-> Some(cfg.deny[d])]
        ELSE IF l > 0 THEN [decision |-> "Allow", rule |-> Some(cfg.allow[l])]
        ELSE IF a > 0 THEN [decision |-> "Ask", rule |-> Some(cfg.ask[a])]
        ELSE [decision |-> ModeDefault(cfg.mode, tool), rule |-> None]

DecideSkipsBuiltinDeny(cfg, tool, args) ==
    LET arg == extract_tool_arg(tool, args)
        d   == FirstMatch(cfg.deny, tool, arg)
        a   == FirstMatch(cfg.ask, tool, arg)
        l   == FirstMatch(cfg.allow, tool, arg)
    IN  IF d > 0 THEN [decision |-> "Deny", rule |-> Some(cfg.deny[d])]
        ELSE IF a > 0 THEN [decision |-> "Ask", rule |-> Some(cfg.ask[a])]
        ELSE IF l > 0 THEN [decision |-> "Allow", rule |-> Some(cfg.allow[l])]
        ELSE [decision |-> ModeDefault(cfg.mode, tool), rule |-> None]

\* PolicyEngine::decide: (Decision, Option<matched_rule>)
decide(cfg, tool, args) ==
    LET arg == extract_tool_arg(tool, args)
        b   == FirstMatch(DEFAULT_DENY_PATTERNS, tool, arg)
        d   == FirstMatch(cfg.deny, tool, arg)
        a   == FirstMatch(cfg.ask, tool, arg)
        l   == FirstMatch(cfg.allow, tool, arg)
    IN  IF b > 0 THEN [decision |-> "Deny", rule |-> Some(DEFAULT_DENY_PATTERNS[b])]
        ELSE IF d > 0 THEN [decision |-> "Deny", rule |-> Some(cfg.deny[d])]
        ELSE IF a > 0 THEN [decision |-> "Ask", rule |-> Some(cfg.ask[a])]
        ELSE IF l > 0 THEN [decision |-> "Allow", rule |-> Some(cfg.allow[l])]
        ELSE [decision |-> ModeDefault(cfg.mode, tool), rule |-> None]

---------------------------------------------------------------------------
(* The policy engine as a state machine: /mode, /permissions add|rm, decide *)

\* The most rules the three lists hold together.
MaxRules == 2

RulePool == {"Bash(curl:*)", "Bash(git:*)", "Bash(git push:*)", "Write", "mcp.echo.*"}

\* The tool calls submitted to decide.
PolicyCalls ==
    { <<"Bash", [command |-> "curl https://x"]>>,
      <<"Bash", [command |-> "wget https://x"]>>,
      <<"Bash", [command |-> "git diff"]>>,
      <<"Bash", [command |-> "git push origin main"]>>,
      <<"Bash", EmptyArgs>>,
      <<"Read", [path |-> "src/lib.rs"]>>,
      <<"Write", [path |-> "src/lib.rs"]>>,
      <<"Glob", [pattern |-> "*.rs"]>>,
      <<"mcp.echo.add", EmptyArgs>>,
      <<"mcp.git.status", EmptyArgs>>,
      <<"Frob", EmptyArgs>> }

RuleKinds == {"allow", "ask", "deny"}

PermissionsConfigDefault(m) == [mode |-> m, allow |-> <<>>, ask |-> <<>>, deny |-> <<>>]

RuleCount(cfg) == Len(cfg.allow) + Len(cfg.ask) + Len(cfg.deny)

RemoveAt(s, i) == SubSeq(s, 1, i - 1) \o SubSeq(s, i + 1, Len(s))

\* The variables of the path check, while another component is explored.
PathIdle == fsLink = <<"out">> /\ vp = None

\* The modulus of u64 arithmetic, 2^64 in the code, scaled down to 2^4 so
\* that sums reach it.
U64Modulus == 16

\* a += b on u64 fields: Some(sum) when the sum fits; beyond it the build
\* decides: a panic (None) when overflow is checked, else the wrapped sum.
AddU64(a, b, checked) ==
    IF a + b < U64Modulus THEN Some(a + b)
    ELSE IF checked THEN None
    ELSE Some((a + b) % U64Modulus)

\* CommandStats::default().
CommandStatsDefault == [input_tokens |-> 0, output_tokens |-> 0, tool_uses |-> 0]

\* A mutation of merge: the tool uses of the other side are dropped.
MergeTokensOnly(self, other, checked) ==
    LET i == AddU64(self.input_tokens, other.input_tokens, checked)
        o == AddU64(self.output_tokens, other.output_tokens, checked)
    IN  IF i = None \/ o = None THEN None
        ELSE Some([input_tokens |-> i[1], output_tokens |-> o[1],
                   tool_uses |-> self.tool_uses])

\* CommandStats::merge: the three += in their order; None when one panics.
merge(self, other, checked) ==
    LET i == AddU64(self.input_tokens, other.input_tokens, checked)
        o == AddU64(self.output_tokens, other.output_tokens, checked)
        t == AddU64(self.tool_uses, other.tool_uses, checked)
    IN  IF i = None \/ o = None \/ t = None THEN None
        ELSE Some([input_tokens |-> i[1], output_tokens |-> o[1], tool_uses |-> t[1]])

\* The usage accumulation of run_subagent and its count of a tool use, on
\* counts that stay far below the modulus.
AddUsage(stats, usage) ==
    IF usage = None THEN stats
    ELSE merge(stats, [input_tokens |-> usage[1].prompt_tokens,
                       output_tokens |-> usage[1].completion_tokens,
                       tool_uses |-> 0], FALSE)[1]

CountToolUse(stats) ==
    merge(stats, [input_tokens |-> 0, output_tokens |-> 0, tool_uses |-> 1], FALSE)[1]

\* TurnResult::default() with what run_turn keeps beside it; on_stop is what
\* the stop hook returned, stop_calls how often it was invoked.
TurnFresh == [max_iterations |-> 0, ret |-> "none", abort |-> "none", exit |-> "none",
              allTools |-> TRUE, in_planning_mode |-> FALSE, tool_schemas |-> {},
              content |-> "",
              force_continue |-> FALSE, continue_prompt |-> None,
              on_stop |-> None, stop_calls |-> 0]

\* The variables of the statistics, while another component is explored.
StatsIdle == overflow_checks = FALSE /\ stats_self = None /\ merged = None

\* The variables of the MCP tool catalog, while another component is explored.
ToolsIdle == advertised = {} /\ lastRoute = None

\* The SSE parser, while another component is explored.
SseIdle == sse = None

\* The transport's process, while another component is explored.
ProcIdle == proc = None /\ health = <<>>

\* The handshake, while another component is explored.
HsIdle == hs = None

\* The Patch tool, while another component is explored.
PatchIdle == pfs = None /\ lastPatch = None

\* The Edit tool, while another component is explored.
EditIdle == efile = None /\ lastEdit = None

StopIdle == chat = <<>> /\ chatPc = "off" /\ chatStart = 0 /\ chatIter = 0 /\ lastStop = None

BorrowIdle == held = <<>> /\ frames = <<>> /\ panicked = FALSE

PriceIdle == ptable = None /\ lookups = <<>>

AuxIdle == StatsIdle /\ ToolsIdle /\ SseIdle /\ ProcIdle /\ HsIdle /\ PatchIdle /\ EditIdle /\ StopIdle /\ BorrowIdle /\ PriceIdle

\* PlanModeState::new.
PlanModeStateNew == [phase |-> "Inactive", current_plan |-> None]

\* The session before its first turn, whatever its startup mode.
TurnIdle ==
    /\ plan_mode = PlanModeStateNew
    /\ maxTurnsArg = None
    /\ messages = <<>>
    /\ pc = "idle"
    /\ iteration = 0
    /\ llmCalls = 0
    /\ tool_calls = <<>>
    /\ tcIdx = 0
    /\ nextCallId = 1
    /\ lastTool = None
    /\ turn = TurnFresh
    /\ sub = None
    /\ active_skills = {}

AgentIdle == cfgMode = "default" /\ TurnIdle

\* The variables of the MCP transport, while another component is explored.
RpcIdle ==
    /\ request_id = 1
    /\ srvInbox = <<>>
    /\ srvStdout = <<>>
    /\ response_rx = <<>>
    /\ rpcPc = "idle"
    /\ rpcCur = 0
    /\ rpcRet = None

InitPolicy ==
    /\ policy \in {PermissionsConfigDefault(m) : m \in Modes}
    /\ lastDecide = None
    /\ engine_print_mode = FALSE
    /\ engine_auto_yes = FALSE
    /\ lastCheck = None
    /\ lastMatch = None
    /\ PathIdle
    /\ RpcIdle
    /\ AuxIdle
    /\ AgentIdle

\* PolicyEngine::set_mode, as driven by the /mode command
SetMode(m) ==
    /\ policy' = [policy EXCEPT !.mode = m]
    /\ lastDecide' = None
    /\ lastCheck' = None
    /\ UNCHANGED <<engine_print_mode, engine_auto_yes, lastMatch>>
    /\ UNCHANGED <<pathVars, auxVars, rpcVars, agentVars>>

\* /permissions add allow|ask|deny "pattern"
PermissionsAdd(kind, pattern) ==
    /\ RuleCount(policy) < MaxRules
    /\ policy' = [policy EXCEPT ![kind] = Append(@, pattern)]
    /\ lastDecide' = None
    /\ lastCheck' = None
    /\ UNCHANGED <<engine_print_mode, engine_auto_yes, lastMatch>>
    /\ UNCHANGED <<pathVars, auxVars, rpcVars, agentVars>>

\* /permissions rm allow|ask|deny <index>
PermissionsRm(kind, idx) ==
    /\ idx \in 1..Len(policy[kind])
    /\ policy' = [policy EXCEPT ![kind] = RemoveAt(@, idx)]
    /\ lastDecide' = None
    /\ lastCheck' = None
    /\ UNCHANGED <<engine_print_mode, engine_auto_yes, lastMatch>>
    /\ UNCHANGED <<pathVars, auxVars, rpcVars, agentVars>>

Decide(tool, args) ==
    /\ lastDecide' = Some([tool |-> tool, args |-> args, out |-> decide(policy, tool, args)])
    /\ UNCHANGED <<policy, engine_print_mode, engine_auto_yes, lastCheck, lastMatch, pathVars, auxVars, rpcVars, agentVars>>

NextPolicy ==
    \/ \E m \in Modes : SetMode(m)
    \/ \E k \in RuleKinds, p \in RulePool : PermissionsAdd(k, p)
    \/ \E k \in RuleKinds, i \in 1..MaxRules : PermissionsRm(k, i)
    \/ \E c \in PolicyCalls : Decide(c[1], c[2])

SpecPolicy == InitPolicy /\ [][NextPolicy]_vars

---------------------------------------------------------------------------
(* Claims about the policy engine, checked under SpecPolicy                *)

AnyRuleMatches(rules, tool, arg) ==
    \E i \in 1..Len(rules) : rule_matches(rules[i], tool, arg)

\* The mode-category table of the permission modes.
CategoryDefaultTable(mode, tool) ==
    IF tool \in {"Read", "Grep", "Glob"} THEN "Allow"
    ELSE IF tool \in {"Write", "Edit"}
         THEN (IF mode = "default" THEN "Ask" ELSE "Allow")
         ELSE (IF mode = "bypassPermissions" THEN "Allow" ELSE "Ask")

RuleOrderingDecision(cfg, tool, args) ==
    LET arg == extract_tool_arg(tool, args)
    IN  IF AnyRuleMatches(DEFAULT_DENY_PATTERNS, tool, arg) \/ AnyRuleMatches(cfg.deny, tool, arg)
        THEN "Deny"
        ELSE IF AnyRuleMatches(cfg.ask, tool, arg) THEN "Ask"
        ELSE IF AnyRuleMatches(cfg.allow, tool, arg) THEN "Allow"
        ELSE CategoryDefaultTable(cfg.mode, tool)

\* C1: in every engine state reached by mode changes and rule-list edits, decide
\* returns Deny if a built-in or user deny rule matches, else Ask if an ask rule
\* matches, else Allow if an allow rule matches, else the mode-category default.
C1_RuleOrdering ==
    lastDecide # None =>
        lastDecide[1].out.decision
            = RuleOrderingDecision(policy, lastDecide[1].tool, lastDecide[1].args)

\* C1 witness: a decision taken while a user deny rule and an allow rule both
\* match the call, and one taken by the mode default of an mcp tool.
C1_Witness ==
    /\ lastDecide # None
    /\ LET d   == lastDecide[1]
           arg == extract_tool_arg(d.tool, d.args)
       IN  /\ AnyRuleMatches(policy.deny, d.tool, arg)
           /\ AnyRuleMatches(policy.allow, d.tool, arg)
           /\ ~AnyRuleMatches(DEFAULT_DENY_PATTERNS, d.tool, arg)
           /\ d.out.decision = "Deny"

IsCurlOrWget(tool, args) ==
    /\ tool = "Bash"
    /\ "command" \in DOMAIN args
    /\ (StartsWith(args.command, "curl") \/ StartsWith(args.command, "wget"))

\* C2: whatever the mode and the user rule lists, a Bash call whose command
\* starts with curl (wget) is decided Deny with matched_rule the built-in pattern
\* Bash(curl:*) (Bash(wget:*)).
C2_BuiltinDenyInescapable ==
    (lastDecide # None /\ IsCurlOrWget(lastDecide[1].tool, lastDecide[1].args)) =>
        lastDecide[1].out =
            [decision |-> "Deny",
             rule |-> Some(IF StartsWith(lastDecide[1].args.command, "curl")
                           THEN "Bash(curl:*)" ELSE "Bash(wget:*)")]

\* C2 witness: a curl call decided in BypassPermissions mode with the allow rule
\* Bash(curl:*) configured.
C2_Witness ==
    /\ lastDecide # None
    /\ IsCurlOrWget(lastDecide[1].tool, lastDecide[1].args)
    /\ policy.mode = "bypassPermissions"
    /\ policy.allow = <<"Bash(curl:*)">>
    /\ policy.deny = <<>>

---------------------------------------------------------------------------
(* Path containment: tools::validate_path and normalize_path               *)
(* A PathBuf is the sequence of its components below "/".                  *)

\* The project root, an absolute canonical directory (ctx.root).
Root == <<"r">>

\* The directories, files and symlinks of the filesystem; link is the target of
\* the symlink r/link.
FsKind(link) ==
    [p \in {<<>>, <<"r">>, <<"r", "a">>, <<"r", "a", "f">>, <<"r", "link">>,
            <<"out">>, <<"out", "s">>}
       |-> IF p \in {<<"r", "a", "f">>, <<"out", "s">>} THEN [kind |-> "file"]
           ELSE IF p = <<"r", "link">> THEN [kind |-> "symlink", target |-> link]
           ELSE [kind |-> "dir"]]

LinkTargets == {<<"out">>, <<"r", "a">>}

\* The most components of a path argument.
MaxPathLen == 3

PathComponents == {"a", "f", "s", "link", "new", ".."}

RECURSIVE JoinComponents(_)
JoinComponents(cs) ==
    IF Len(cs) = 1 THEN cs[1] ELSE cs[1] \o "/" \o JoinComponents(Tail(cs))

RelativePathArgs ==
    {JoinComponents(cs) : cs \in UNION {[1..n -> PathComponents] : n \in 1..MaxPathLen}}

PathArgs == RelativePathArgs \cup {"/" \o q : q \in {"r/a/f", "out/s", "etc"}}

\* Path::components of a relative path string: the segments between '/', empty
\* segments and "." dropped.
RECURSIVE Components(_)
Components(str) ==
    IF str = "" THEN <<>>
    ELSE LET i    == Find(str, "/")
             seg  == IF i = 0 THEN str ELSE SubSeq(str, 1, i - 1)
             rest == IF i = 0 THEN "" ELSE DropFirst(str, i)
         IN  IF seg = "" \/ seg = "." THEN Components(rest)
             ELSE <<seg>> \o Components(rest)

\* Path::starts_with: component-wise prefix
PathStartsWith(p, base) == Len(base) <= Len(p) /\ SubSeq(p, 1, Len(base)) = base

\* PathBuf::pop
Pop(p) == IF Len(p) = 0 THEN p ELSE SubSeq(p, 1, Len(p) - 1)

\* The OS path walk (realpath): from directory cur, follow the components cs,
\* resolving ".." against the physical parent and following symlinks. missingOk
\* lets the final component name a file that does not exist yet. None on ENOENT,
\* ENOTDIR or ELOOP.
RECURSIVE Walk(_, _, _, _, _)
Walk(fs, cur, cs, missingOk, fuel) ==
    IF cs = <<>> THEN Some(cur)
    ELSE IF fuel = 0 THEN None
    ELSE IF fs[cur].kind # "dir" THEN None
    ELSE IF Head(cs) = ".." THEN Walk(fs, Pop(cur), Tail(cs), missingOk, fuel)
    ELSE LET q == Append(cur, Head(cs))
         IN  IF q \notin DOMAIN fs
             THEN (IF missingOk /\ Len(cs) = 1 THEN Some(q) ELSE None)
             ELSE IF fs[q].kind = "symlink"
                  THEN Walk(fs, <<>>, fs[q].target \o Tail(cs), missingOk, fuel - 1)
                  ELSE Walk(fs, q, Tail(cs), missingOk, fuel)

SymlinkFuel == 4

\* Path::canonicalize: every component must exist
canonicalize(fs, p) == Walk(fs, <<>>, p, FALSE, SymlinkFuel)

normalize_path(p) ==
    LET RECURSIVE Go(_, _)
        Go(result, cs) ==
            IF cs = <<>> THEN result
            ELSE IF Head(cs) = ".." THEN Go(Pop(result), Tail(cs))
            ELSE Go(Append(result, Head(cs)), Tail(cs))
    IN  Go(<<>>, p)

PathOutOfScope == [ok |-> FALSE, code |-> "path_out_of_scope", path |-> <<>>]

PathOk(p) == [ok |-> TRUE, code |-> "", path |-> p]

\* The canonical path validate_path compares with root (lines 90-104).
CanonicalOrFallback(fs, full) ==
    LET c == canonicalize(fs, full)
    IN  IF c # None THEN c[1]
        ELSE IF Len(full) = 0 THEN full
        ELSE LET cp == canonicalize(fs, Pop(full))
                 file_name == IF full[Len(full)] = ".." THEN <<>> ELSE <<full[Len(full)]>>
             IN  IF cp # None THEN cp[1] \o file_name ELSE full

validate_path(fs, path, root) ==
    IF StartsWith(path, "/") THEN PathOutOfScope
    ELSE LET full      == root \o Components(path)
             canonical == CanonicalOrFallback(fs, full)
         IN  IF ~PathStartsWith(canonical, root)
             THEN LET norm == normalize_path(full)
                  IN  IF ~PathStartsWith(norm, root) THEN PathOutOfScope ELSE PathOk(norm)
             ELSE PathOk(canonical)

\* The variables of the policy engine, while another component is explored.
PolicyIdle ==
    /\ policy = PermissionsConfigDefault("default")
    /\ lastDecide = None
    /\ engine_print_mode = FALSE
    /\ engine_auto_yes = FALSE
    /\ lastCheck = None
    /\ lastMatch = None

InitPath ==
    /\ fsLink \in LinkTargets
    /\ vp = None
    /\ PolicyIdle
    /\ RpcIdle
    /\ AuxIdle
    /\ AgentIdle

\* A path-taking tool validates its path argument.
ValidatePath(path) ==
    /\ vp' = Some([arg |-> path, out |-> validate_path(FsKind(fsLink), path, Root)])
    /\ UNCHANGED <<fsLink, auxVars, polVars, rpcVars, agentVars>>

NextPath == \E path \in PathArgs : ValidatePath(path)

SpecPath == InitPath /\ [][NextPath]_vars

\* Where the OS lands when a tool opens the returned path for reading or for
\* writing (the last component may be a file to create); None when the open fails.
ResolvesTo(fs, p) == Walk(fs, <<>>, p, TRUE, SymlinkFuel)

\* C6: validate_path accepts a path only if the file it resolves to lies inside
\* root; absolute paths, ..-escapes and symlink-escapes are rejected with
\* path_out_of_scope.
C6_Containment ==
    vp # None =>
        LET fs  == FsKind(fsLink)
            out == vp[1].out
        IN  /\ (out.ok /\ ResolvesTo(fs, out.path) # None)
                    => PathStartsWith(ResolvesTo(fs, out.path)[1], Root)
            /\ ~out.ok => out.code = "path_out_of_scope"
            /\ StartsWith(vp[1].arg, "/") => ~out.ok

---------------------------------------------------------------------------
(* The stdio transport and McpClient::call                                 *)
(* A JSON-RPC message is [id |-> Some(n)] (a response) or [id |-> None]    *)
(* (a notification the server sends on its own).                           *)

\* The most requests a client issues.
MaxRequests == 3

\* The most unsolicited messages in flight from the server.
MaxUnsolicited == 1

RpcResponse(n) == [id |-> Some(n)]

RpcNotification == [id |-> None]

InitStdio ==
    /\ RpcIdle
    /\ AuxIdle
    /\ PolicyIdle
    /\ PathIdle
    /\ AgentIdle

\* McpClient::call up to the blocking receive: next_id, then StdioTransport::send
\* writes the request line to the child's stdin.
CallSend ==
    /\ rpcPc = "idle"
    /\ request_id <= MaxRequests
    /\ rpcCur' = request_id
    /\ request_id' = request_id + 1
    /\ srvInbox' = Append(srvInbox, request_id)
    /\ rpcPc' = "recv"
    /\ UNCHANGED <<srvStdout, response_rx, rpcRet, polVars, pathVars, auxVars, agentVars>>

\* What recv_timeout hands back when the channel holds a message: its head.
RecvTake(rx) == Head(rx)

\* recv_timeout returns the next message of the channel to McpTransportImpl::send,
\* which returns it to McpClient::call.
RecvMessage ==
    /\ rpcPc = "recv"
    /\ response_rx # <<>>
    /\ rpcRet' = Some([req |-> rpcCur, ok |-> TRUE, msg |-> RecvTake(response_rx)])
    /\ response_rx' = Tail(response_rx)
    /\ rpcPc' = "idle"
    /\ UNCHANGED <<request_id, srvInbox, srvStdout, rpcCur, polVars, pathVars, auxVars, agentVars>>

\* recv_timeout finds the channel empty for 30 s: "Receive timeout" error.
RecvTimeout ==
    /\ rpcPc = "recv"
    /\ response_rx = <<>>
    /\ rpcRet' = Some([req |-> rpcCur, ok |-> FALSE, msg |-> RpcNotification])
    /\ rpcPc' = "idle"
    /\ UNCHANGED <<request_id, srvInbox, srvStdout, response_rx, rpcCur, polVars, pathVars, auxVars, agentVars>>

\* The server answers the oldest request it has read, with that request's id.
ServerReply ==
    /\ srvInbox # <<>>
    /\ srvStdout' = Append(srvStdout, RpcResponse(Head(srvInbox)))
    /\ srvInbox' = Tail(srvInbox)
    /\ UNCHANGED <<request_id, response_rx, rpcPc, rpcCur, rpcRet, polVars, pathVars, auxVars, agentVars>>

\* The server writes a message nobody asked for (a notification, a log line in JSON).
ServerUnsolicited ==
    /\ Cardinality({i \in 1..Len(srvStdout) : srvStdout[i] = RpcNotification})
         + Cardinality({i \in 1..Len(response_rx) : response_rx[i] = RpcNotification})
         < MaxUnsolicited
    /\ srvStdout' = Append(srvStdout, RpcNotification)
    /\ UNCHANGED <<request_id, srvInbox, response_rx, rpcPc, rpcCur, rpcRet, polVars, pathVars, auxVars, agentVars>>

\* One round of reader_loop: a parsed line goes into the channel.
ReaderForward ==
    /\ srvStdout # <<>>
    /\ response_rx' = Append(response_rx, Head(srvStdout))
    /\ srvStdout' = Tail(srvStdout)
    /\ UNCHANGED <<request_id, srvInbox, rpcPc, rpcCur, rpcRet, polVars, pathVars, auxVars, agentVars>>

NextStdio ==
    \/ CallSend
    \/ RecvMessage
    \/ RecvTimeout
    \/ ServerReply
    \/ ServerUnsolicited
    \/ ReaderForward

SpecStdio == InitStdio /\ [][NextStdio]_vars

\* C7: the value returned to the caller of request n is a response carrying id n;
\* a response carrying another id, or an unsolicited message, is never returned
\* as the response to request n.
C7_ResponseMatchesRequest ==
    (rpcRet # None /\ rpcRet[1].ok) => rpcRet[1].msg.id = Some(rpcRet[1].req)

\* C17: a call on a stdio transport that gets no message within its deadline
\* returns an error, and the transport stays usable: the call that follows the
\* timed-out one, when it gets a message back, gets the response to its own
\* request.
C17_UsableAfterTimeout ==
    [][(/\ rpcPc = "recv"
        /\ rpcRet # None
        /\ ~rpcRet[1].ok
        /\ rpcRet[1].req = rpcCur - 1
        /\ rpcPc' = "idle"
        /\ rpcRet'[1].ok)
            => rpcRet'[1].msg = RpcResponse(rpcCur)]_vars

---------------------------------------------------------------------------
(* The agent turn loop (agent::run_turn) and subagents (run_subagent)      *)
(* A message is [role, calls, id]: an assistant message carries the ids of *)
(* its tool calls, a tool message the id of the call it answers.           *)
(* A tool result is its error code, "" when it carries no error object.    *)

MAX_ITERATIONS == 12

\* The largest --max-turns given on the command line.
MaxTurns == 2

\* The most tool calls in one assistant message.
MaxCalls == 2

ModeOrder(m) ==
    CASE m = "default" -> 0 [] m = "acceptEdits" -> 1 [] m = "bypassPermissions" -> 2

clamp_mode(requested, parent) ==
    IF ModeOrder(requested) > ModeOrder(parent) THEN parent ELSE requested

tool_matches(tool, pattern, arg) ==
    IF pattern = tool THEN TRUE
    ELSE IF /\ EndsWith(pattern, ".*")
            /\ StartsWith(tool, DropLast(pattern, 2))
            /\ LET remaining == DropFirst(tool, Len(pattern) - 2)
               IN  remaining = "" \/ StartsWith(remaining, ".")
         THEN TRUE
    ELSE IF Find(pattern, "(") # 0
         THEN LET open_paren  == Find(pattern, "(")
                  close_paren == RFind(pattern, ")")
                  arg_pattern == SubSeq(pattern, open_paren + 1, close_paren - 1)
              IN  IF SubSeq(pattern, 1, open_paren - 1) # tool THEN FALSE
                  ELSE IF close_paren = 0 THEN FALSE
                  ELSE IF arg = None THEN FALSE
                  ELSE IF EndsWith(arg_pattern, ":*")
                       THEN StartsWith(arg[1], DropLast(arg_pattern, 2))
                       ELSE arg_pattern = arg[1]
    ELSE FALSE

tool_matches_any_simple(tool, patterns) ==
    \E i \in 1..Len(patterns) : tool_matches(tool, patterns[i], None)

\* The names of tools::schemas: the built-in tools, Task not among them.
schemas == {"Read", "Write", "Edit", "Patch", "Glob", "Search", "Bash"}

\* The tools of the connected MCP servers, by full name.
McpTools == {"mcp.echo.add"}

\* The names of tools::schemas_with_task; the schemas of the todo and ask_user
\* modules are named after their tools.
schemas_with_task ==
    schemas \cup {"Task", "ActivateSkill", "TodoWrite", "AskUser",
                  "EnterPlanMode", "ExitPlanMode"}

\* The allowed-tools of the skill packs of the index: None when a pack
\* restricts nothing.
SkillAllowedTools(skill) == IF skill = "rust" THEN Some({"Read", "Glob", "Bash"}) ELSE None

\* ActiveSkills::effective_allowed_tools: the intersection of the lists of the
\* active skills that have one, None when none has.
effective_allowed_tools(active) ==
    LET restrictions == {SkillAllowedTools(k)[1] : k \in {a \in active : SkillAllowedTools(a) # None}}
    IN  IF restrictions = {} THEN None
        ELSE Some({t \in UNION restrictions : \A r \in restrictions : t \in r})

\* The tool catalog run_turn builds before its loop: in planning the schemas
\* named Read, Grep or Glob and no MCP tool, else every schema and the MCP
\* tools; then the restriction of the active skills, which keeps ActivateSkill
\* and Task.
tool_schemas(in_planning_mode, active) ==
    LET base      == IF in_planning_mode
                     THEN {name \in schemas : name \in {"Read", "Grep", "Glob"}}
                     ELSE schemas_with_task \cup McpTools
        effective == effective_allowed_tools(active)
    IN  IF effective = None THEN base
        ELSE {name \in base : name \in {"ActivateSkill", "Task"} \/ name \in effective[1]}

filter_tool_schemas(allowed_tools) ==
    {name \in schemas : tool_matches_any_simple(name, allowed_tools)}

\* A mutation of is_tool_allowed without its Task check.
IsToolAllowedByPatternsOnly(tool_name, allowed_tools) ==
    tool_matches_any_simple(tool_name, allowed_tools)

\* A mutation: only the Task test is made.
IsToolAllowedTaskOnly(tool_name, allowed_tools) == tool_name # "Task"

is_tool_allowed(tool_name, allowed_tools) ==
    IF tool_name = "Task" THEN FALSE
    ELSE tool_matches_any_simple(tool_name, allowed_tools)

\* The tool catalog run_subagent offers its model (lines 232-248).
SubagentCatalog(allowed_tools) ==
    filter_tool_schemas(allowed_tools)
        \cup {t \in McpTools : is_tool_allowed(t, allowed_tools)}

\* config.agents: the agent specs of the session.
Agents ==
    [scout |-> [allowed_tools |-> <<"Read", "Grep", "Glob">>,
                permission_mode |-> "default", max_turns |-> 1],
     patch |-> [allowed_tools |-> <<"Task", "Task.*", "mcp.*", "Bash", "Edit">>,
                permission_mode |-> "bypassPermissions", max_turns |-> 2]]

prompt_user(print_mode, auto_yes, answer) ==
    IF print_mode /\ ~auto_yes THEN FALSE
    ELSE IF auto_yes THEN TRUE
    ELSE answer

\* The match of check_permission on the (decision, rule) that decide returned.
CheckPermissionMatch(d, print_mode, auto_yes, answer) ==
    [allowed  |-> CASE d.decision = "Allow" -> TRUE
                    [] d.decision = "Deny"  -> FALSE
                    [] d.decision = "Ask"   -> prompt_user(print_mode, auto_yes, answer),
     decision |-> d.decision,
     rule     |-> d.rule]

\* check_permission: answer is what the user types at the interactive prompt.
check_permission(cfg, print_mode, auto_yes, tool, args, answer) ==
    CheckPermissionMatch(decide(cfg, tool, args), print_mode, auto_yes, answer)

\* Whether prompt_user gets as far as read_line.
PromptReadsLine(print_mode, auto_yes) == ~(print_mode /\ ~auto_yes) /\ ~auto_yes

Whitespace == {" ", "\n", "\t", "\r"}

\* str::trim: leading and trailing whitespace removed
RECURSIVE trim(_)
trim(str) ==
    IF str = "" THEN str
    ELSE IF SubSeq(str, 1, 1) \in Whitespace THEN trim(DropFirst(str, 1))
    ELSE IF SubSeq(str, Len(str), Len(str)) \in Whitespace THEN trim(DropLast(str, 1))
    ELSE str

UpperLetters == "ABCDEFGHIJKLMNOPQRSTUVWXYZ"

LowerLetters == "abcdefghijklmnopqrstuvwxyz"

\* str::to_lowercase on ASCII text
RECURSIVE to_lowercase(_)
to_lowercase(str) ==
    IF str = "" THEN str
    ELSE LET c == SubSeq(str, 1, 1)
             i == Find(UpperLetters, c)
         IN  (IF i = 0 THEN c ELSE SubSeq(LowerLetters, i, i)) \o to_lowercase(DropFirst(str, 1))

\* A mutation of the answer test: only the single letter is taken for a yes.
YesAnswerOnlyLetter(line) ==
    line # None /\ to_lowercase(trim(line[1])) = "y"

\* The end of prompt_user: line is what read_line put into input, None when
\* read_line returned Err.
YesAnswer(line) ==
    IF line # None
    THEN LET input == to_lowercase(trim(line[1]))
         IN  input = "y" \/ input = "yes"
    ELSE FALSE

\* PolicyEngine::new
PolicyEngineNew(config, print_mode, auto_yes) ==
    [config |-> config, print_mode |-> print_mode, auto_yes |-> auto_yes]

\* A mutation of the subagent's engine: the parent's prompting is inherited.
SubagentPolicyInheritsPrompting(parent_policy, effective_mode) ==
    PolicyEngineNew([parent_policy.config EXCEPT !.mode = effective_mode],
                    parent_policy.print_mode, parent_policy.auto_yes)

\* The policy engine run_subagent builds for itself: the parent's rule lists,
\* the clamped mode, print_mode true and auto_yes false.
subagent_policy(parent_policy, effective_mode) ==
    PolicyEngineNew([parent_policy.config EXCEPT !.mode = effective_mode], TRUE, FALSE)

---------------------------------------------------------------------------
(* Plan mode: PlanModeState and the parsing of a plan from the model's text *)

\* str::find(pat) for a pattern of any length, scanning from position i: the
\* 1-based index of the first occurrence, 0 when absent.
RECURSIVE FindStrFrom(_, _, _)
FindStrFrom(s, pat, i) ==
    IF i + Len(pat) - 1 > Len(s) THEN 0
    ELSE IF SubSeq(s, i, i + Len(pat) - 1) = pat THEN i
    ELSE FindStrFrom(s, pat, i + 1)

FindStr(s, pat) == FindStrFrom(s, pat, 1)

\* str::split(ch): the pieces of s between the occurrences of ch. lines() is
\* split on "\n"; every use trims the pieces, which removes a "\r" left at
\* the end and makes a last empty piece harmless.
RECURSIVE Split(_, _)
Split(s, ch) ==
    LET i == Find(s, ch)
    IN  IF i = 0 THEN <<s>>
        ELSE <<SubSeq(s, 1, i - 1)>> \o Split(DropFirst(s, i), ch)

\* split(',').map(trim).filter(!is_empty).collect()
RECURSIVE TrimmedNonEmpty(_)
TrimmedNonEmpty(parts) ==
    IF parts = <<>> THEN <<>>
    ELSE (IF trim(Head(parts)) = "" THEN <<>> ELSE <<trim(Head(parts))>>)
             \o TrimmedNonEmpty(Tail(parts))

Digits == "0123456789"

\* The first position at or after i of s that holds no whitespace (\s*).
RECURSIVE SkipSpaces(_, _)
SkipSpaces(s, i) ==
    IF i <= Len(s) /\ SubSeq(s, i, i) \in Whitespace THEN SkipSpaces(s, i + 1) ELSE i

\* The first position at or after i of s that holds no digit (\d*).
RECURSIVE SkipDigits(_, _)
SkipDigits(s, i) ==
    IF i <= Len(s) /\ Find(Digits, SubSeq(s, i, i)) # 0 THEN SkipDigits(s, i + 1) ELSE i

\* str::parse::<usize> of a string of digits (no text explored here reaches
\* the overflow that makes it fail).
RECURSIVE ParseUsize(_, _)
ParseUsize(str, acc) ==
    IF str = "" THEN acc
    ELSE ParseUsize(DropFirst(str, 1), acc * 10 + Find(Digits, SubSeq(str, 1, 1)) - 1)

\* PlanStep::new, with the fields the parser fills in.
PlanStepNew(number, title, description) ==
    [number |-> number, title |-> title, description |-> description,
     files |-> <<>>, tools |-> <<>>, status |-> "Pending"]

\* step_re.captures(line) for (?i)STEP\s+(\d+):\s*(.+), the leftmost match
\* starting at or after i: the digits, and the text after the colon trimmed
\* (the code trims capture 2, which begins after the blanks \s* took).
RECURSIVE StepCaptures(_, _)
StepCaptures(line, i) ==
    LET b == SkipSpaces(line, i + 4)
        c == SkipDigits(line, b)
    IN  IF i + 3 > Len(line) THEN None
        ELSE IF /\ to_lowercase(SubSeq(line, i, i + 3)) = "step"
                /\ b > i + 4 /\ c > b
                /\ SubSeq(line, c, c) = ":" /\ c + 1 <= Len(line)
        THEN Some([number |-> SubSeq(line, b, c - 1),
                   title |-> trim(SubSeq(line, c + 1, Len(line)))])
        ELSE StepCaptures(line, i + 1)

\* The loop of parse_plan_output over the lines of the block: steps pushed so
\* far, the step being filled, and whether a description is being continued.
RECURSIVE ParseSteps(_, _, _, _)
ParseSteps(lines, steps, current_step, in_description) ==
    IF lines = <<>>
    THEN IF current_step # None THEN Append(steps, current_step[1]) ELSE steps
    ELSE LET trimmed == trim(Head(lines))
             caps    == StepCaptures(trimmed, 1)
             rest    == Tail(lines)
         IN  IF caps # None
             THEN ParseSteps(rest,
                             IF current_step # None THEN Append(steps, current_step[1])
                             ELSE steps,
                             Some(PlanStepNew(ParseUsize(caps[1].number, 0),
                                              caps[1].title, "")),
                             FALSE)
             ELSE IF current_step = None
             THEN ParseSteps(rest, steps, current_step, in_description)
             ELSE LET step == current_step[1]
                  IN  IF StartsWith(trimmed, "DESCRIPTION:")
                      THEN ParseSteps(rest, steps,
                               Some([step EXCEPT !.description = trim(DropFirst(trimmed, 12))]),
                               TRUE)
                      ELSE IF StartsWith(trimmed, "FILES:")
                      THEN ParseSteps(rest, steps,
                               Some([step EXCEPT !.files =
                                        TrimmedNonEmpty(Split(DropFirst(trimmed, 6), ","))]),
                               FALSE)
                      ELSE IF StartsWith(trimmed, "TOOLS:")
                      THEN ParseSteps(rest, steps,
                               Some([step EXCEPT !.tools =
                                        TrimmedNonEmpty(Split(DropFirst(trimmed, 6), ","))]),
                               FALSE)
                      ELSE IF in_description /\ trimmed # ""
                      THEN ParseSteps(rest, steps,
                               Some([step EXCEPT !.description =
                                        (IF @ # "" THEN @ \o " " ELSE "") \o trimmed]),
                               in_description)
                      ELSE ParseSteps(rest, steps, current_step, in_description)

\* The code fence, three backquotes in the source; a string of this module
\* cannot hold a backquote, and the texts explored write ''' for it.
Fence == "'''"

\* extract_plan_block: the text between the fence that opens a plan block and
\* the next fence (or the end), trimmed; else the whole output when it holds
\* a STEP 1: marker; else Err (None).
extract_plan_block(output) ==
    LET start         == FindStr(output, Fence \o "plan")
        content_start == start + 7
        close         == FindStrFrom(output, Fence, content_start)
        end           == IF close = 0 THEN Len(output) + 1 ELSE close
    IN  IF start # 0 THEN Some(trim(SubSeq(output, content_start, end - 1)))
        ELSE IF FindStr(output, "STEP 1:") # 0 \/ FindStr(output, "Step 1:") # 0
        THEN Some(output)
        ELSE None

\* extract_field: the trimmed rest of the first line that, trimmed, starts
\* with the prefix.
RECURSIVE extract_field(_, _)
extract_field(lines, prefix) ==
    IF lines = <<>> THEN None
    ELSE IF StartsWith(trim(Head(lines)), prefix)
    THEN Some(trim(DropFirst(trim(Head(lines)), Len(prefix))))
    ELSE extract_field(Tail(lines), prefix)

\* Plan::new(name, goal); the name, a slug of the goal and the time, is left out.
PlanNew(goal) == [goal |-> goal, summary |-> "", steps |-> <<>>, status |-> "Draft"]

\* parse_plan_output: Some(plan) for Ok, None for Err.
parse_plan_output(output, goal) ==
    LET plan_block == extract_plan_block(output)
    IN  IF plan_block = None THEN None
        ELSE LET lines   == Split(plan_block[1], "\n")
                 summary == extract_field(lines, "SUMMARY:")
                 steps   == ParseSteps(lines, <<>>, None, FALSE)
             IN  IF steps = <<>> THEN None
                 ELSE Some([PlanNew(goal) EXCEPT
                              !.summary = IF summary # None THEN summary[1] ELSE "",
                              !.steps = steps,
                              !.status = "Ready"])

\* PlanModeState::enter_planning.
enter_planning(goal) == [phase |-> "Planning", current_plan |-> Some(PlanNew(goal))]

\* PlanModeState::enter_review.
enter_review(state) ==
    [phase |-> "Review",
     current_plan |-> IF state.current_plan = None THEN None
                      ELSE Some([state.current_plan[1] EXCEPT !.status = "Ready"])]

\* A mutation of the plan parsing of run_turn: a text that does not parse
\* discards the current plan.
PlanFromResponseDropsOnErr(state, in_planning_mode, content, parsed) ==
    IF ~in_planning_mode \/ content = "" THEN state
    ELSE IF parsed = None THEN [state EXCEPT !.current_plan = None]
    ELSE enter_review([state EXCEPT !.current_plan =
             IF @ = None THEN None
             ELSE Some([@[1] EXCEPT !.summary = parsed[1].summary,
                                    !.steps = parsed[1].steps,
                                    !.status = "Ready"])])

\* What run_turn does to ctx.plan_mode with the content of a response; parsed
\* is parse_plan_output of the content and the current plan's goal.
PlanFromResponse(state, in_planning_mode, content, parsed) ==
    IF ~in_planning_mode \/ content = "" \/ parsed = None THEN state
    ELSE enter_review([state EXCEPT !.current_plan =
             IF @ = None THEN None
             ELSE Some([@[1] EXCEPT !.summary = parsed[1].summary,
                                    !.steps = parsed[1].steps,
                                    !.status = "Ready"])])

\* The goal run_turn hands to parse_plan_output.
PlanGoal(state) == IF state.current_plan = None THEN "" ELSE state.current_plan[1].goal

Msg(role, calls, id) == [role |-> role, calls |-> calls, id |-> id]

\* A mutation of the tool message: the call id dropped.
ToolMessageWithoutCallId(tool_call_id) == Msg("tool", <<>>, 0)

\* The tool message both loops push: {"role": "tool", "tool_call_id": tc.id, ...}
ToolMessage(tool_call_id) == Msg("tool", <<>>, tool_call_id)

\* A mutation of the loop bound: one iteration more.
LoopRunsOnceMore(it, max) == it <= max

\* for iteration in 1..=max: whether another iteration follows iteration it.
LoopContinues(it, max) == it < max

\* A Result<Value>: Err(e) propagated by `?`, or a value with its error code.
Err == [abort |-> TRUE, code |-> "error"]

Value(code) == [abort |-> FALSE, code |-> code]

BuiltinTools == {"Read", "Write", "Edit", "Patch", "Grep", "Glob", "Search", "Bash"}

\* What a built-in tool returns: its own failure is a value carrying an error object.
BuiltinResult(name, fails) == IF fails THEN Value("tool_error") ELSE Value("")

tools_execute(name, fails) ==
    IF name \in BuiltinTools THEN BuiltinResult(name, fails) ELSE Value("unknown_tool")

\* The match on tools::mcp_dispatch::execute: its Err becomes an mcp_error value.
McpCallResult(fails) == IF fails THEN Value("mcp_error") ELSE Value("")

\* The skills of ctx.skill_index.
SkillIndex == {"rust"}

\* The ActivateSkill branch of run_turn; fails is parse_skill_md failing.
ActivateSkillResult(args, fails, active) ==
    LET skill_name == IF GetStr(args, "name") = None THEN "" ELSE GetStr(args, "name")[1]
    IN  IF skill_name = "" THEN Value("missing_name")
        ELSE IF skill_name \in active \/ skill_name \notin SkillIndex \/ fails
             THEN Value("activation_failed")
             ELSE Value("")

\* tools::task::execute up to run_subagent: the error value it returns at once,
\* or "" when the subagent is to run.
TaskPrecheck(args) ==
    IF GetStr(args, "agent") = None THEN "missing_agent"
    ELSE IF GetStr(args, "prompt") = None THEN "missing_prompt"
    ELSE IF GetStr(args, "agent")[1] \notin DOMAIN Agents THEN "agent_not_found"
    ELSE ""

\* A mutation of the match on run_subagent: its Err is propagated.
TaskResultPropagatesErr(ret, last_error) ==
    IF ret = "err" THEN Err ELSE Value(last_error)

\* tools::task::execute after run_subagent: Err becomes a subagent_error value,
\* Ok the result's JSON, whose error object is the subagent's last_error.
TaskResult(ret, last_error) ==
    IF ret = "err" THEN Value("subagent_error") ELSE Value(last_error)

\* The stats tools::task::execute returns with its value: those of
\* run_subagent when it is Ok, the default when it is Err.
TaskStats(ret, stats) == IF ret = "err" THEN CommandStatsDefault ELSE stats

\* The tool calls the model may ask for in the main loop.
MainCalls ==
    { [name |-> "Bash", args |-> [command |-> "git diff"]],
      [name |-> "Bash", args |-> [command |-> "curl https://x"]],
      [name |-> "Read", args |-> [path |-> "a.rs"]],
      [name |-> "Task", args |-> [agent |-> "patch", prompt |-> "p"]],
      [name |-> "Task", args |-> [agent |-> "scout", prompt |-> "p"]],
      [name |-> "Task", args |-> [agent |-> "ghost", prompt |-> "p"]],
      [name |-> "mcp.echo.add", args |-> EmptyArgs],
      [name |-> "ActivateSkill", args |-> [name |-> "rust"]],
      [name |-> "Frob", args |-> EmptyArgs] }

\* The first response of a turn is explored with every call above, the later
\* ones with a Read call.
MainCallsAt(it) ==
    IF it = 1 THEN MainCalls ELSE {[name |-> "Read", args |-> [path |-> "a.rs"]]}

\* What hooks.pre_tool_use may return: (proceed, updated_args).
PreToolUseOutcomes(name) ==
    {[proceed |-> TRUE, updated_args |-> None], [proceed |-> FALSE, updated_args |-> None]}
        \cup (IF name = "Bash"
              THEN {[proceed |-> TRUE, updated_args |-> Some([command |-> "curl https://evil"])]}
              ELSE {})

\* The texts the model may send while a plan is asked of it: plan blocks with
\* steps, without steps and unclosed, bare STEP lines with and without a
\* title or a STEP 1: marker, prose, and no content.
PlanTexts ==
    { Fence \o "plan\nSUMMARY: fix it\nSTEP 1: read\nDESCRIPTION: look\n at it\n"
          \o "FILES: a.rs, ,b.rs\nSTEP 2: edit\n" \o Fence \o "\nSTEP 3: after",
      "Step 1: do it",
      "x " \o Fence \o "plan\n - step  12:   lower  \nTOOLS: Read",
      Fence \o "plan\nSUMMARY: nothing yet\n" \o Fence,
      "STEP 1:",
      "Step 2: only",
      "I will look around.",
      "" }

\* The content of a response: explored in a turn started in Planning, where
\* run_turn reads it. Every text is explored in a first response without tool
\* calls; one plan and one text without a plan elsewhere, the plan of a later
\* response another one than that of the first.
ResponseTexts(it, planning, kind) ==
    IF ~planning THEN {""}
    ELSE IF it = 1 /\ kind = "text" THEN PlanTexts
    ELSE IF it = 1 THEN {"Step 1: do it", "I will look around."}
    ELSE {"Step 1: do it over", "I will look around."}

\* response.usage: absent in a response without choices, token counts else.
ResponseUsage(resp) ==
    IF resp.kind = "text" THEN Some([prompt_tokens |-> 2, completion_tokens |-> 1])
    ELSE IF resp.kind = "calls" THEN Some([prompt_tokens |-> 1, completion_tokens |-> 1])
    ELSE None

\* What the model may answer in iteration it of a loop: an LLM error, no
\* choices, text only, or n tool calls (several in the first response).
LlmResponses(it, planning) ==
    {[kind |-> "error", n |-> 0, content |-> ""], [kind |-> "empty", n |-> 0, content |-> ""]}
        \cup {[kind |-> "text", n |-> 0, content |-> c] : c \in ResponseTexts(it, planning, "text")}
        \cup {[kind |-> "calls", n |-> n, content |-> c] :
                    n \in 1..(IF it = 1 THEN MaxCalls ELSE 1),
                    c \in ResponseTexts(it, planning, "calls")}

InitAgent ==
    /\ cfgMode \in Modes
    /\ policy = PermissionsConfigDefault(cfgMode)
    /\ lastDecide = None
    /\ engine_print_mode = FALSE
    /\ engine_auto_yes = FALSE
    /\ lastCheck = None
    /\ lastMatch = None
    /\ plan_mode = PlanModeStateNew
    /\ maxTurnsArg \in {None, Some(1), Some(MaxTurns)}
    /\ messages = <<>>
    /\ pc = "idle"
    /\ iteration = 0
    /\ llmCalls = 0
    /\ tool_calls = <<>>
    /\ tcIdx = 0
    /\ nextCallId = 1
    /\ lastTool = None
    /\ turn = TurnFresh
    /\ sub = None
    /\ active_skills = {}
    /\ PathIdle
    /\ RpcIdle
    /\ AuxIdle

\* The /mode command of the REPL, read between turns: PolicyEngine::set_mode.
ModeCommand(m) ==
    /\ pc = "idle"
    /\ SetMode(m)

\* run_turn up to its loop: the user message, the skills activated by the
\* $mentions of the input, max_iterations.
BeginTurn(mentioned) ==
    /\ pc = "idle"
    /\ active_skills' = active_skills \cup mentioned
    /\ messages' = Append(messages, Msg("user", <<>>, 0))
    /\ turn' = [TurnFresh EXCEPT
                  !.in_planning_mode = plan_mode.phase = "Planning",
                  !.tool_schemas = tool_schemas(plan_mode.phase = "Planning", active_skills'),
                  !.max_iterations = IF maxTurnsArg = None THEN MAX_ITERATIONS
                                     ELSE maxTurnsArg[1]]
    /\ iteration' = 1
    /\ llmCalls' = 0
    /\ lastTool' = None
    /\ pc' = "llm"
    /\ UNCHANGED <<cfgMode, plan_mode, maxTurnsArg, tool_calls, tcIdx, nextCallId, sub,
                   polVars, pathVars, auxVars, rpcVars>>

\* run_turn for the first input of a conversation.
StartTurn(mentioned) ==
    /\ messages = <<>>
    /\ BeginTurn(mentioned)

\* A mutation of the failing LLM call: the last message is taken back.
LlmErrDropsLast(msgs) == SubSeq(msgs, 1, Len(msgs) - 1)

\* A mutation of the failing LLM call: the turn's messages are rolled back.
LlmErrRollsBack(msgs) == <<>>

\* The messages list as `client.chat(&request)?` leaves it when chat fails:
\* the `?` returns from run_turn and nothing touches the list.
LlmErrLeaves(msgs) == msgs

\* One LLM call of run_turn and what the loop does with the response up to the
\* first tool call: Err leaves run_turn by `?`, no choices and no tool calls break.
LlmCall(resp) ==
    /\ pc = "llm"
    /\ llmCalls' = llmCalls + 1
    /\ lastTool' = None
    /\ plan_mode' = IF resp.kind \in {"text", "calls"}
                     THEN PlanFromResponse(plan_mode, turn.in_planning_mode, resp.content,
                              parse_plan_output(resp.content, PlanGoal(plan_mode)))
                     ELSE plan_mode
    /\ CASE resp.kind = "error" ->
              /\ pc' = "idle"
              /\ turn' = [turn EXCEPT !.ret = "err", !.abort = "llm", !.content = ""]
              /\ messages' = LlmErrLeaves(messages)
              /\ UNCHANGED <<tool_calls, tcIdx, nextCallId>>
         [] resp.kind = "empty" ->
              /\ pc' = "stop"
              /\ turn' = [turn EXCEPT !.exit = "no_choices", !.allTools = FALSE,
                                      !.content = ""]
              /\ UNCHANGED <<messages, tool_calls, tcIdx, nextCallId>>
         [] resp.kind = "text" ->
              /\ messages' = Append(messages, Msg("assistant", <<>>, 0))
              /\ pc' = "stop"
              /\ turn' = [turn EXCEPT !.exit = "no_tools", !.allTools = FALSE,
                                      !.content = resp.content]
              /\ UNCHANGED <<tool_calls, tcIdx, nextCallId>>
         [] resp.kind = "calls" ->
              LET ids == [i \in 1..resp.n |-> nextCallId + i - 1]
              IN  /\ messages' = Append(messages, Msg("assistant", ids, 0))
                  /\ tool_calls' = ids
                  /\ tcIdx' = 1
                  /\ nextCallId' = nextCallId + resp.n
                  /\ pc' = "tool"
                  /\ turn' = [turn EXCEPT !.content = resp.content]
    /\ UNCHANGED <<cfgMode, maxTurnsArg, iteration, sub, active_skills,
                   polVars, pathVars, auxVars, rpcVars>>

\* run_turn after the handling of the call at tcIdx: a result that is Err leaves
\* run_turn by `?`; a value is pushed as the tool message of the call, and the
\* loop goes to the next call, the next iteration, or its end.
FinishToolCall(name, result, passed, gate, sub_stats) ==
    /\ lastTool' = Some([who |-> "main", id |-> tool_calls[tcIdx], name |-> name,
                         code |-> result.code, passed |-> passed, gate |-> gate,
                         sub_stats |-> sub_stats])
    /\ IF result.abort
       THEN /\ pc' = "idle"
            /\ turn' = [turn EXCEPT !.ret = "err", !.abort = "tool"]
            /\ UNCHANGED <<messages, tcIdx, iteration>>
       ELSE /\ messages' = Append(messages, ToolMessage(tool_calls[tcIdx]))
            /\ IF tcIdx < Len(tool_calls)
               THEN /\ tcIdx' = tcIdx + 1
                    /\ pc' = "tool"
                    /\ UNCHANGED <<iteration, turn>>
               ELSE IF LoopContinues(iteration, turn.max_iterations)
               THEN /\ iteration' = iteration + 1
                    /\ pc' = "llm"
                    /\ UNCHANGED <<tcIdx, turn>>
               ELSE /\ pc' = "stop"
                    /\ turn' = [turn EXCEPT !.exit = "cap"]
                    /\ UNCHANGED <<tcIdx, iteration>>

\* run_subagent up to its loop: the clamped mode, the subagent's own policy
\* engine (print_mode true, auto_yes false), its messages and its tool catalog.
SubagentStart(agent) ==
    LET spec           == Agents[agent]
        parent_mode    == cfgMode
        effective_mode == clamp_mode(spec.permission_mode, parent_mode)
    IN  [agent |-> agent, mode |-> effective_mode,
         policy |-> subagent_policy(
                        PolicyEngineNew(policy, engine_print_mode, engine_auto_yes),
                        effective_mode),
         tools |-> SubagentCatalog(spec.allowed_tools),
         messages |-> <<Msg("user", <<>>, 0)>>,
         iteration |-> 1, llmCalls |-> 0, tool_calls |-> <<>>, idx |-> 0, nextCallId |-> 1,
         had_errors |-> FALSE, last_error |-> "", error_results |-> FALSE,
         stats |-> CommandStatsDefault,
         allTools |-> TRUE, exit |-> "none", ret |-> "none", abort |-> "none"]

\* A mutation of the dispatch: the policy's denial is reported before the
\* hook's veto.
DispatchBranchPolicyFirst(hook_proceed, allowed) ==
    IF ~allowed THEN "permission_denied"
    ELSE IF ~hook_proceed THEN "hook_blocked"
    ELSE "dispatch"

\* The branches of `let result = if !hook_proceed {..} else if allowed {..}
\* else {..}` in run_turn: the error code of the result, or "dispatch" when
\* the tool is run.
DispatchBranch(hook_proceed, allowed) ==
    IF ~hook_proceed THEN "hook_blocked"
    ELSE IF allowed THEN "dispatch"
    ELSE "permission_denied"

\* The handling of one tool call in run_turn: check_permission, then the
\* pre-tool hook and its rewrite of the arguments, then the dispatch.
\* answer is the user's reply if prompted, fails whether the tool itself fails.
HandleToolCall(call, hook, answer, fails) ==
    /\ pc = "tool"
    /\ \E perm \in {check_permission(policy, engine_print_mode, engine_auto_yes,
                                      call.name, call.args, answer)} :
       LET name   == call.name
           args   == IF hook.updated_args # None THEN hook.updated_args[1] ELSE call.args
           branch == DispatchBranch(hook.proceed, perm.allowed)
           gate   == [proceed |-> hook.proceed, allowed |-> perm.allowed]
           runs   == branch = "dispatch" /\ (name = "Task" => TaskPrecheck(args) = "")
       IN  \* answer and fails are read only where the code reads them
           /\ perm.decision # "Ask" => answer
           /\ ~runs => ~fails
           /\ IF branch # "dispatch"
              THEN /\ FinishToolCall(name, Value(branch), None, gate, None)
                   /\ UNCHANGED <<sub, active_skills>>
              ELSE IF name = "ActivateSkill"
              THEN LET r == ActivateSkillResult(args, fails, active_skills)
                   IN  /\ FinishToolCall(name, r, Some([name |-> name, args |-> args]), gate, None)
                       /\ active_skills' = IF r.code = "" THEN active_skills \cup {args.name}
                                           ELSE active_skills
                       /\ UNCHANGED sub
              ELSE IF name = "Task"
              THEN IF TaskPrecheck(args) # ""
                   THEN /\ FinishToolCall(name, Value(TaskPrecheck(args)), None, gate,
                                       Some(CommandStatsDefault))
                        /\ UNCHANGED <<sub, active_skills>>
                   ELSE /\ sub' = Some(SubagentStart(args.agent))
                        /\ pc' = "sub_llm"
                        /\ lastTool' = None
                        /\ ~fails
                        /\ UNCHANGED <<messages, tcIdx, iteration, turn, active_skills>>
              ELSE IF StartsWith(name, "mcp.")
              THEN /\ FinishToolCall(name, McpCallResult(fails),
                                     Some([name |-> name, args |-> args]), gate, None)
                   /\ UNCHANGED <<sub, active_skills>>
              ELSE /\ FinishToolCall(name, tools_execute(name, fails),
                                     Some([name |-> name, args |-> args]), gate, None)
                   /\ UNCHANGED <<sub, active_skills>>
    /\ UNCHANGED <<cfgMode, plan_mode, maxTurnsArg, llmCalls, tool_calls, nextCallId,
                   polVars, pathVars, auxVars, rpcVars>>

\* One LLM call of run_subagent and what its loop does with the response.
SubLlmCall(resp) ==
    /\ pc = "sub_llm"
    /\ lastTool' = None
    /\ LET sa == [sub[1] EXCEPT !.llmCalls = @ + 1,
                                !.stats = AddUsage(@, ResponseUsage(resp))]
       IN  CASE resp.kind = "error" ->
                  /\ sub' = Some([sa EXCEPT !.ret = "err", !.abort = "llm"])
                  /\ pc' = "sub_end"
             [] resp.kind = "empty" ->
                  /\ sub' = Some([sa EXCEPT !.ret = "ok", !.exit = "no_choices",
                                            !.allTools = FALSE])
                  /\ pc' = "sub_end"
             [] resp.kind = "text" ->
                  /\ sub' = Some([sa EXCEPT !.ret = "ok", !.exit = "no_tools",
                                            !.allTools = FALSE,
                                            !.messages = Append(@, Msg("assistant", <<>>, 0))])
                  /\ pc' = "sub_end"
             [] resp.kind = "calls" ->
                  LET ids == [i \in 1..resp.n |-> sa.nextCallId + i - 1]
                  IN  /\ sub' = Some([sa EXCEPT !.tool_calls = ids, !.idx = 1,
                                                !.nextCallId = @ + resp.n,
                                                !.messages = Append(@, Msg("assistant", ids, 0))])
                      /\ pc' = "sub_tool"
    /\ UNCHANGED <<cfgMode, plan_mode, maxTurnsArg, messages, iteration, llmCalls, tool_calls, tcIdx,
                   nextCallId, turn, active_skills, polVars, pathVars, auxVars, rpcVars>>

\* The tool calls the model may ask for inside a subagent, in its first response.
SubCalls ==
    { [name |-> "Read", args |-> [path |-> "a.rs"]],
      [name |-> "Edit", args |-> [path |-> "a.rs"]],
      [name |-> "Bash", args |-> [command |-> "git diff"]],
      [name |-> "Bash", args |-> [command |-> "curl https://x"]],
      [name |-> "Task", args |-> [agent |-> "patch", prompt |-> "p"]],
      [name |-> "mcp.echo.add", args |-> EmptyArgs] }

SubCallsAt(it) ==
    IF it = 1 THEN SubCalls ELSE {[name |-> "Bash", args |-> [command |-> "git diff"]]}

\* What run_subagent does with one tool call up to its result: is_tool_allowed,
\* the check_permission of the subagent's engine, the dispatch. line is what a
\* prompt would read from stdin. decision is "none" when decide is not called,
\* read tells whether a line was read.
SubToolOutcome(allowed, perm, engine, call, fails) ==
    [allowed  |-> allowed,
     decision |-> IF allowed THEN perm.decision ELSE "none",
     read     |-> /\ allowed
                  /\ PromptReadsLine(engine.print_mode, engine.auto_yes)
                  /\ perm.decision = "Ask",
     passed   |-> IF allowed /\ perm.allowed
                  THEN Some([name |-> call.name, args |-> call.args]) ELSE None,
     result   |-> IF ~allowed THEN Value("tool_not_allowed")
                  ELSE IF ~perm.allowed THEN Value("permission_denied")
                  ELSE IF StartsWith(call.name, "mcp.") THEN McpCallResult(fails)
                  ELSE tools_execute(call.name, fails)]

SubToolResult(engine, allowed_tools, call, line, fails) ==
    SubToolOutcome(is_tool_allowed(call.name, allowed_tools),
                   check_permission(engine.config, engine.print_mode, engine.auto_yes,
                                    call.name, call.args, YesAnswer(line)),
                   engine, call, fails)

\* The handling of one tool call in run_subagent: is_tool_allowed, the
\* subagent's check_permission, the dispatch, had_errors and the tool message.
SubToolCall(call, fails) ==
    /\ pc = "sub_tool"
    /\ \E out \in {SubToolResult(sub[1].policy, Agents[sub[1].agent].allowed_tools,
                                   call, None, fails)} :
       LET sa      == [sub[1] EXCEPT !.stats = CountToolUse(@)]
           spec    == Agents[sa.agent]
           name    == call.name
           id      == sa.tool_calls[sa.idx]
           allowed == out.allowed
           result  == out.result
           passed  == out.passed
           tracked == IF allowed /\ result.code # ""
                      THEN [sa EXCEPT !.had_errors = TRUE, !.last_error = result.code]
                      ELSE sa
           pushed  == [tracked EXCEPT !.messages = Append(@, ToolMessage(id)),
                                      !.error_results = @ \/ result.code # ""]
       IN  /\ passed = None => ~fails
           /\ lastTool' = Some([who |-> "sub", id |-> id, name |-> name,
                                code |-> result.code, passed |-> passed])
           /\ IF result.abort
              THEN /\ sub' = Some([sa EXCEPT !.ret = "err", !.abort = "tool"])
                   /\ pc' = "sub_end"
              ELSE IF sa.idx < Len(sa.tool_calls)
              THEN /\ sub' = Some([pushed EXCEPT !.idx = @ + 1])
                   /\ pc' = "sub_tool"
              ELSE IF LoopContinues(sa.iteration, spec.max_turns)
              THEN /\ sub' = Some([pushed EXCEPT !.iteration = @ + 1])
                   /\ pc' = "sub_llm"
              ELSE /\ sub' = Some([pushed EXCEPT !.ret = "ok", !.exit = "cap"])
                   /\ pc' = "sub_end"
    /\ UNCHANGED <<cfgMode, plan_mode, maxTurnsArg, messages, iteration, llmCalls, tool_calls, tcIdx,
                   nextCallId, turn, active_skills, polVars, pathVars, auxVars, rpcVars>>

\* SubagentResult.ok as run_subagent builds it at its end.
SubagentOk(sa) == ~sa.had_errors

\* run_subagent returns to tools::task::execute, and run_turn finishes the
\* handling of the Task call with the value task::execute gives.
TaskEnd ==
    /\ pc = "sub_end"
    /\ FinishToolCall("Task", TaskResult(sub[1].ret, sub[1].last_error), None,
                      [proceed |-> TRUE, allowed |-> TRUE],
                      Some(TaskStats(sub[1].ret, sub[1].stats)))
    /\ sub' = None
    /\ UNCHANGED <<cfgMode, plan_mode, maxTurnsArg, llmCalls, tool_calls, nextCallId, active_skills,
                   polVars, pathVars, auxVars, rpcVars>>

\* What hooks.on_stop may return: (force_continue, continue_prompt).
OnStopOutcomes ==
    {[force_continue |-> f, continue_prompt |-> p] :
        f \in BOOLEAN, p \in {None, Some("keep going")}}

\* A mutation of the stop handling: the hook's flag is reported as it came.
TurnResultTrustsFlag(stop) ==
    [force_continue |-> stop.force_continue, continue_prompt |-> stop.continue_prompt]

\* force_continue and continue_prompt of the TurnResult, from what on_stop
\* returned: set only when the flag comes with a prompt.
TurnResultFromStop(stop) ==
    IF stop.force_continue /\ stop.continue_prompt # None
    THEN [force_continue |-> TRUE, continue_prompt |-> stop.continue_prompt]
    ELSE [force_continue |-> FALSE, continue_prompt |-> None]

\* run_turn after its loop: the stop hooks, then Ok(result).
EndTurn(stop) ==
    /\ pc = "stop"
    /\ pc' = "idle"
    /\ turn' = [turn EXCEPT !.ret = "ok",
                            !.on_stop = Some(stop),
                            !.stop_calls = @ + 1,
                            !.force_continue = TurnResultFromStop(stop).force_continue,
                            !.continue_prompt = TurnResultFromStop(stop).continue_prompt]
    /\ UNCHANGED <<cfgMode, plan_mode, maxTurnsArg, messages, iteration, llmCalls, tool_calls, tcIdx,
                   nextCallId, lastTool, sub, active_skills, polVars, pathVars, auxVars, rpcVars>>

NextAgent ==
    \/ \E m \in Modes : ModeCommand(m)
    \/ \E mentioned \in SUBSET SkillIndex : StartTurn(mentioned)
    \/ \E resp \in LlmResponses(iteration, turn.in_planning_mode) : LlmCall(resp)
    \/ \E call \in MainCallsAt(iteration), answer \in BOOLEAN, fails \in BOOLEAN :
         \E hook \in PreToolUseOutcomes(call.name) : HandleToolCall(call, hook, answer, fails)
    \/ \E resp \in LlmResponses(IF sub = None THEN 1 ELSE sub[1].iteration, FALSE) :
         SubLlmCall(resp)
    \/ \E call \in SubCallsAt(IF sub = None THEN 1 ELSE sub[1].iteration), fails \in BOOLEAN :
         SubToolCall(call, fails)
    \/ TaskEnd
    \/ \E stop \in OnStopOutcomes : EndTurn(stop)

SpecAgent == InitAgent /\ [][NextAgent]_vars

---------------------------------------------------------------------------
(* The turn loop of a session that is in plan mode                          *)

\* The goal given to the plan command.
PlanGoals == {"fix the build"}

\* The session after PlanModeState::enter_planning(goal), before the turn
\* that asks the model for the plan.
InitPlan ==
    /\ cfgMode \in {"default", "bypassPermissions"}
    /\ policy = PermissionsConfigDefault(cfgMode)
    /\ lastDecide = None
    /\ engine_print_mode = FALSE
    /\ engine_auto_yes = FALSE
    /\ lastCheck = None
    /\ lastMatch = None
    /\ \E goal \in PlanGoals : plan_mode = enter_planning(goal)
    /\ maxTurnsArg \in {Some(1), Some(MaxTurns)}
    /\ messages = <<>>
    /\ pc = "idle"
    /\ iteration = 0
    /\ llmCalls = 0
    /\ tool_calls = <<>>
    /\ tcIdx = 0
    /\ nextCallId = 1
    /\ lastTool = None
    /\ turn = TurnFresh
    /\ sub = None
    /\ active_skills = {}
    /\ PathIdle
    /\ RpcIdle
    /\ AuxIdle

SpecPlan == InitPlan /\ [][NextAgent]_vars

---------------------------------------------------------------------------
(* check_permission of the session's engine and of a subagent's engine,    *)
(* under every print-mode and auto-yes setting of the session              *)

\* The tool calls submitted to check_permission.
PermissionCalls ==
    { [name |-> "Bash", args |-> [command |-> "git diff"]],
      [name |-> "Bash", args |-> [command |-> "curl https://x"]],
      [name |-> "Read", args |-> [path |-> "a.rs"]],
      [name |-> "Edit", args |-> [path |-> "a.rs"]],
      [name |-> "Grep", args |-> [pattern |-> "fn"]],
      [name |-> "mcp.echo.add", args |-> EmptyArgs] }

\* What read_line may put into input: a line with its newline, the empty
\* string at end of input, None for an Err.
StdinLines ==
    {Some(l) : l \in {"y\n", " YES \n", "Y", "yEs\r\n", "n\n", "", "ye\n", "yes please\n"}}
        \cup {None}

\* The rules /permissions add puts into the lists while checks are explored.
PermissionRulePool == {"Bash(git:*)"}

InitPermission ==
    /\ cfgMode \in Modes
    /\ policy = PermissionsConfigDefault(cfgMode)
    /\ lastDecide = None
    /\ engine_print_mode \in BOOLEAN
    /\ engine_auto_yes \in BOOLEAN
    /\ lastCheck = None
    /\ lastMatch = None
    /\ TurnIdle
    /\ PathIdle
    /\ RpcIdle
    /\ AuxIdle

\* PolicyEngine::check_permission on the session's engine; line is what stdin
\* holds, recorded when the prompt reads it.
CheckPermission(call, line) ==
    /\ line # None => PromptReadsLine(engine_print_mode, engine_auto_yes)
    /\ \E perm \in {check_permission(policy, engine_print_mode, engine_auto_yes,
                                   call.name, call.args, YesAnswer(line))} :
       LET read == /\ PromptReadsLine(engine_print_mode, engine_auto_yes)
                   /\ perm.decision = "Ask"
       IN  /\ line # None => read
           /\ lastCheck' = Some([who |-> "session", tool |-> call.name, args |-> call.args,
                                 line |-> line, read |-> read, allowed |-> perm.allowed,
                                 decision |-> perm.decision, rule |-> perm.rule,
                                 code |-> "", passed |-> None])
    /\ UNCHANGED <<policy, lastDecide, engine_print_mode, engine_auto_yes, lastMatch,
                   pathVars, auxVars, rpcVars, agentVars>>

\* run_subagent for the agent named: its engine built from the session's, then
\* the handling of one tool call of its model. veto is whether the session's
\* pre-tool hook refuses the call when it is asked; run_subagent does not ask.
SubagentCheckPermission(agent, call, line, veto) ==
    LET spec   == Agents[agent]
        engine == subagent_policy(
                      PolicyEngineNew(policy, engine_print_mode, engine_auto_yes),
                      clamp_mode(spec.permission_mode, cfgMode))
    IN  \E out \in {SubToolResult(engine, spec.allowed_tools, call, line, FALSE)} :
        /\ line # None => out.read
        /\ lastCheck' = Some([who |-> "sub", agent |-> agent,
                              tool |-> call.name, args |-> call.args,
                              line |-> line, read |-> out.read,
                              allowed |-> out.passed # None,
                              decision |-> out.decision, rule |-> None,
                              code |-> out.result.code, passed |-> out.passed,
                              veto |-> veto])
        /\ UNCHANGED <<policy, lastDecide, engine_print_mode, engine_auto_yes, lastMatch,
                       pathVars, auxVars, rpcVars, agentVars>>

NextPermission ==
    \/ \E k \in {"ask", "allow"}, p \in PermissionRulePool : PermissionsAdd(k, p)
    \/ \E call \in PermissionCalls, line \in StdinLines : CheckPermission(call, line)
    \/ \E agent \in DOMAIN Agents, call \in PermissionCalls, line \in {None, Some("y\n")} :
         \E veto \in BOOLEAN : SubagentCheckPermission(agent, call, line, veto)

SpecPermission == InitPermission /\ [][NextPermission]_vars

\* C13: whatever the session's print-mode and auto-yes settings, a tool call
\* inside a subagent for which the subagent's decide returns Ask is not
\* dispatched, gets a result with error code permission_denied, and no line is
\* read from the user.
C13_SubagentNeverPrompts ==
    (lastCheck # None /\ lastCheck[1].who = "sub") =>
        /\ ~lastCheck[1].read
        /\ lastCheck[1].decision = "Ask" =>
                /\ lastCheck[1].passed = None
                /\ lastCheck[1].code = "permission_denied"

\* C13 witness: the session runs interactively with --yes, so that its own
\* engine approves every Ask, and a subagent's Edit call was decided Ask.
C13_Witness ==
    /\ lastCheck # None
    /\ lastCheck[1].who = "sub"
    /\ lastCheck[1].tool = "Edit"
    /\ lastCheck[1].decision = "Ask"
    /\ engine_auto_yes
    /\ ~engine_print_mode

\* The responses of StdinLines that are y or yes once trimmed and case-folded.
YesResponses == {Some(l) : l \in {"y\n", " YES \n", "Y", "yEs\r\n"}}

\* C14: check_permission returns the Decision and matched rule of decide;
\* allowed is true on Allow and false on Deny without a prompt; on Ask it is
\* false in print mode without auto-yes, true with auto-yes, and otherwise one
\* line is read and allowed holds iff the trimmed, case-folded line is y or yes.
C14_CheckPermissionContract ==
    (lastCheck # None /\ lastCheck[1].who = "session") =>
        LET c == lastCheck[1]
            d == decide(policy, c.tool, c.args)
        IN  /\ c.decision = d.decision
            /\ c.rule = d.rule
            /\ d.decision = "Allow" => c.allowed /\ ~c.read
            /\ d.decision = "Deny" => ~c.allowed /\ ~c.read
            /\ d.decision = "Ask" =>
                    IF engine_print_mode /\ ~engine_auto_yes THEN ~c.allowed /\ ~c.read
                    ELSE IF engine_auto_yes THEN c.allowed /\ ~c.read
                    ELSE c.read /\ (c.allowed <=> c.line \in YesResponses)

\* C14 witness: an interactive session asked about a Bash call under an ask
\* rule and read the answer " YES " from the user.
C14_Witness ==
    /\ lastCheck # None
    /\ lastCheck[1].who = "session"
    /\ lastCheck[1].rule = Some("Bash(git:*)")
    /\ lastCheck[1].decision = "Ask"
    /\ lastCheck[1].read
    /\ lastCheck[1].line = Some(" YES \n")
    /\ lastCheck[1].allowed

---------------------------------------------------------------------------
(* The two pattern matchers, tool_filter::tool_matches and                 *)
(* PolicyEngine::rule_matches, applied to tool names, patterns, arguments  *)

\* The names of MCP servers.
ServerNames == {"echo", "git", "a.b"}

\* The tool names given to the matchers.
MatchTools ==
    UNION {{"mcp." \o sv \o ".x", "mcp." \o sv \o ".x.y", "mcp." \o sv \o "foo.x",
            "mcp." \o sv} : sv \in ServerNames}
        \cup {"mcp", "mcp.", "mcpfake.tool", "mcpx", "Bash", "Edit", "Write", "Task.x"}

\* The patterns given to the matchers, well-formed and malformed.
MatchPatterns ==
    {"mcp." \o sv \o ".*" : sv \in ServerNames}
        \cup {"mcp.*", "Write", "Task.*", "Bash(git:*)", "Edit(src/lib.rs)",
              "Bash(git:*", "Bash(git status", "Bash(", "Edit(src/lib.rs", "Write(", "Bash(:*"}

\* The primary arguments given to the matchers.
MatchArgs == {None, Some("git status"), Some("src/lib.rs"), Some("")}

InitMatch ==
    /\ PolicyIdle
    /\ PathIdle
    /\ RpcIdle
    /\ AuxIdle
    /\ AgentIdle

\* A call of tool_filter::tool_matches. The matchers are pure: each behaviour
\* holds one call.
ToolMatches(tool, pattern, arg) ==
    /\ lastMatch = None
    /\ lastMatch' = Some([fn |-> "tool_matches", tool |-> tool, pattern |-> pattern,
                          arg |-> arg, out |-> tool_matches(tool, pattern, arg)])
    /\ UNCHANGED <<policy, lastDecide, engine_print_mode, engine_auto_yes, lastCheck,
                   pathVars, auxVars, rpcVars, agentVars>>

\* A call of PolicyEngine::rule_matches.
RuleMatches(pattern, tool, arg) ==
    /\ lastMatch = None
    /\ lastMatch' = Some([fn |-> "rule_matches", tool |-> tool, pattern |-> pattern,
                          arg |-> arg, out |-> rule_matches(pattern, tool, arg)])
    /\ UNCHANGED <<policy, lastDecide, engine_print_mode, engine_auto_yes, lastCheck,
                   pathVars, auxVars, rpcVars, agentVars>>

NextMatch ==
    \/ \E tool \in MatchTools, pattern \in MatchPatterns, arg \in MatchArgs :
         ToolMatches(tool, pattern, arg)
    \/ \E tool \in MatchTools, pattern \in MatchPatterns, arg \in MatchArgs :
         RuleMatches(pattern, tool, arg)

SpecMatch == InitMatch /\ [][NextMatch]_vars

\* What both matchers do with the server wildcards: mcp.<s>.* matches mcp.<s>.x
\* and mcp.<s>.x.y and not mcp.<s>foo.x.
ServerWildcardHolds(m) ==
    \A sv \in ServerNames :
        m.pattern = "mcp." \o sv \o ".*" =>
            /\ m.tool \in {"mcp." \o sv \o ".x", "mcp." \o sv \o ".x.y"} => m.out
            /\ m.tool = "mcp." \o sv \o "foo.x" => ~m.out

\* C15: in both matchers mcp.<s>.* matches mcp.<s>.x and mcp.<s>.x.y
\* and not mcp.<s>foo.x; mcp.* matches every tool whose name starts with
\* "mcp." and no tool whose name starts with mcp without the dot.
C15_McpWildcards ==
    lastMatch # None =>
        /\ ServerWildcardHolds(lastMatch[1])
        /\ lastMatch[1].pattern = "mcp.*" =>
                /\ StartsWith(lastMatch[1].tool, "mcp.") => lastMatch[1].out
                /\ (StartsWith(lastMatch[1].tool, "mcp") /\ ~StartsWith(lastMatch[1].tool, "mcp."))
                        => ~lastMatch[1].out

\* C16: a pattern with '(' and no ')' never matches, in tool_matches and in
\* the policy engine's rule matching, whatever the tool name and the argument.
C16_MalformedNeverMatches ==
    (lastMatch # None /\ Find(lastMatch[1].pattern, "(") # 0
                      /\ Find(lastMatch[1].pattern, ")") = 0)
        => ~lastMatch[1].out

---------------------------------------------------------------------------
(* Claims about the turn loop and subagents, checked under SpecAgent       *)

\* C3: through run_turn, whatever the pre-tool hook returns, the Bash tool is
\* never run with a command (after the hook's rewrite) that starts with curl
\* or wget.
C3_NoCurlReachesBash ==
    (lastTool # None /\ lastTool[1].who = "main" /\ lastTool[1].passed # None) =>
        ~IsCurlOrWget(lastTool[1].passed[1].name, lastTool[1].passed[1].args)

\* The less permissive of two modes.
MinMode(a, b) == IF ModeOrder(a) <= ModeOrder(b) THEN a ELSE b

\* C4: a subagent's effective mode is the minimum of its spec's permission_mode
\* and the parent policy engine's current mode, whatever /mode commands came
\* before the Task call; it is never above the parent's mode.
C4_SubagentModeClamped ==
    sub # None =>
        /\ sub[1].mode = MinMode(Agents[sub[1].agent].permission_mode, policy.mode)
        /\ ModeOrder(sub[1].mode) <= ModeOrder(policy.mode)

\* C5: Task is never in the tool catalog offered to a subagent's model, and a
\* Task call made inside a subagent is answered with tool_not_allowed without
\* being dispatched, so that no subagent starts inside a subagent.
C5_NoTaskInsideSubagent ==
    /\ sub # None => "Task" \notin sub[1].tools
    /\ (lastTool # None /\ lastTool[1].who = "sub" /\ lastTool[1].name = "Task") =>
            /\ lastTool[1].code = "tool_not_allowed"
            /\ lastTool[1].passed = None
    /\ sub # None => pc \in {"sub_llm", "sub_tool", "sub_end"}

\* C5 witness: the subagent whose allowed_tools list Task and Task.* has asked
\* for Task and was answered.
C5_Witness ==
    /\ sub # None
    /\ sub[1].agent = "patch"
    /\ lastTool # None
    /\ lastTool[1].who = "sub"
    /\ lastTool[1].name = "Task"
    /\ Len(sub[1].messages) >= 3

\* The K of a loop: --max-turns, 12 when it is not given, for the main loop,
\* and the agent spec's max_turns for a subagent.
MainK == IF maxTurnsArg = None THEN 12 ELSE maxTurnsArg[1]

SubK == Agents[sub[1].agent].max_turns

IsTextReply(m) == m.role = "assistant" /\ m.calls = <<>>

\* C8: a turn ends after at most K LLM calls, K being --max-turns (default 12)
\* in the main loop and spec.max_turns in a subagent: no LLM call follows the
\* K-th; the loop makes exactly K when every response carries tool calls; a
\* response without tool calls ends the loop with the assistant message as the
\* last one appended.
C8_TurnBoundedByMaxTurns ==
    /\ llmCalls <= MainK
    /\ (pc # "idle" \/ turn.ret # "none") => turn.max_iterations = MainK
    /\ (turn.allTools /\ pc \in {"stop", "idle"} /\ turn.ret # "err" /\ messages # <<>>)
            => llmCalls = MainK
    /\ pc = "llm" => llmCalls < MainK
    /\ turn.exit = "no_tools" =>
            /\ pc \in {"stop", "idle"}
            /\ IsTextReply(messages[Len(messages)])
    /\ sub # None =>
            /\ sub[1].llmCalls <= SubK
            /\ (sub[1].allTools /\ sub[1].ret = "ok") => sub[1].llmCalls = SubK
            /\ pc = "sub_llm" => sub[1].llmCalls < SubK
            /\ sub[1].exit = "no_tools" =>
                    /\ pc = "sub_end"
                    /\ IsTextReply(sub[1].messages[Len(sub[1].messages)])

\* C8 witness: under the default, a turn that got tool calls every time, two
\* of them in its first response, has ended after its twelfth LLM call.
C8_Witness ==
    /\ maxTurnsArg = None
    /\ pc = "stop"
    /\ turn.allTools
    /\ llmCalls = 12
    /\ \E i \in 1..Len(messages) : messages[i].role = "assistant" /\ Len(messages[i].calls) = 2

\* In msgs, every assistant message is followed by the tool messages of its
\* calls, one per call, in the order of the calls and carrying their ids; of the
\* final assistant message the first `handled` calls are answered and no more.
ToolMessagesInOrder(msgs, handled) ==
    LET A      == {p \in 1..Len(msgs) : msgs[p].role = "assistant"}
        final  == CHOOSE p \in A : \A q \in A : q <= p
        due(p) == IF p = final /\ handled < Len(msgs[p].calls)
                  THEN handled ELSE Len(msgs[p].calls)
    IN  /\ \A p \in A :
              /\ p + due(p) <= Len(msgs)
              /\ \A i \in 1..due(p) : msgs[p + i] = Msg("tool", <<>>, msgs[p].calls[i])
              /\ p + due(p) < Len(msgs) => msgs[p + due(p) + 1].role # "tool"
        /\ \A q \in 1..Len(msgs) :
              msgs[q].role = "tool" => q > 1 /\ msgs[q - 1].role \in {"tool", "assistant"}

\* C9: the tool calls of a response are handled one at a time in the order given;
\* each gets one tool message with its id, appended in that order, and all are
\* appended before the next LLM call; the same holds inside a subagent, which
\* runs while the main loop waits at its Task call.
C9_ToolCallsSequential ==
    /\ ToolMessagesInOrder(messages,
            IF pc \in {"tool", "sub_llm", "sub_tool", "sub_end"} THEN tcIdx - 1
            ELSE Len(tool_calls))
    /\ sub # None <=> pc \in {"sub_llm", "sub_tool", "sub_end"}
    /\ sub # None =>
            ToolMessagesInOrder(sub[1].messages,
                IF pc = "sub_tool" THEN sub[1].idx - 1 ELSE Len(sub[1].tool_calls))

\* C9 witness: the main loop has answered the first call of a response and waits
\* at its second, a Task call, whose subagent has answered its own first call
\* and handles its second.
C9_Witness ==
    /\ pc = "sub_tool"
    /\ tcIdx = 2
    /\ Len(messages) = 3
    /\ sub[1].idx = 2
    /\ Len(sub[1].messages) = 3

\* C10: no failure of a tool (built-in, mcp.*, Task, ActivateSkill) ends the turn
\* or the subagent run: the failure is an error object in the tool message
\* appended for the call, and the loop goes on.
C10_ToolFailureDoesNotAbort ==
    /\ turn.abort # "tool"
    /\ sub # None => sub[1].abort # "tool"
    /\ (lastTool # None /\ lastTool[1].code # "") =>
            LET msgs == IF lastTool[1].who = "main" THEN messages ELSE sub[1].messages
            IN  /\ msgs[Len(msgs)] = Msg("tool", <<>>, lastTool[1].id)
                /\ turn.ret # "err"
                /\ lastTool[1].who = "sub" => sub[1].ret # "err"

\* C10 witness: a Task call whose subagent failed got subagent_error as its
\* result, and the main loop is at the next call of the same response.
C10_Witness ==
    /\ pc = "tool"
    /\ lastTool # None
    /\ lastTool[1].who = "main"
    /\ lastTool[1].name = "Task"
    /\ lastTool[1].code = "subagent_error"

\* The messages a loop has appended after k completed iterations: the user
\* message first, then per iteration the assistant message and one tool
\* message for each of its calls.
CompletedIterations(msgs, k) ==
    LET A == {p \in 1..Len(msgs) : msgs[p].role = "assistant"}
    IN  /\ msgs # <<>>
        /\ msgs[1] = Msg("user", <<>>, 0)
        /\ Cardinality(A) = k
        /\ \A p \in A : msgs[p].calls # <<>>
        /\ Cardinality({p \in 1..Len(msgs) : msgs[p].role = "tool"})
              = Len(msgs) - 1 - k
        /\ ToolMessagesInOrder(msgs, Len(msgs))

\* C11: when an LLM call of run_turn fails, run_turn returns an error, and
\* messages is what it was before the call: the user message of the turn
\* followed by the messages of every completed iteration, nothing removed.
C11_LlmErrorKeepsMessages ==
    [][(pc = "llm" /\ turn'.abort = "llm") =>
          /\ turn'.ret = "err"
          /\ pc' = "idle"
          /\ messages' = messages
          /\ CompletedIterations(messages', llmCalls)]_vars

\* C11 witness: the third LLM call of a turn failed after two iterations that
\* handled tool calls.
C11_Witness ==
    /\ turn.abort = "llm"
    /\ turn.ret = "err"
    /\ llmCalls = 3
    /\ Len(messages) >= 6

\* C12: the ok field of a subagent result is true if and only if no tool call
\* of the subagent produced an error result, permission_denied,
\* tool_not_allowed and tool-reported errors counting alike.
C12_OkIffNoErrorResult ==
    (pc = "sub_end" /\ sub[1].ret = "ok") =>
        (SubagentOk(sub[1]) <=> ~sub[1].error_results)

\* C20: whenever the pre-tool hook returns proceed = false for a tool call of
\* the main loop, whatever the tool (built-in, external, Task, ActivateSkill,
\* unknown) and whatever check_permission answered, the tool is not run (no
\* call passes to a tool, no subagent starts, no skill is activated) and the
\* tool message appended for the call carries the error hook_blocked.
C20_HookVetoBlocks ==
    [][(pc = "tool" /\ lastTool' # None /\ lastTool'[1].who = "main"
            /\ ~lastTool'[1].gate.proceed) =>
          /\ lastTool'[1].id = tool_calls[tcIdx]
          /\ lastTool'[1].code = "hook_blocked"
          /\ lastTool'[1].passed = None
          /\ messages' = Append(messages, ToolMessage(tool_calls[tcIdx]))
          /\ sub' = None
          /\ active_skills' = active_skills
          /\ pc' # "sub_llm"
          /\ turn'.ret # "err"]_vars

\* A Task call the policy allowed, vetoed by the hook.
C20_Witness ==
    /\ lastTool # None
    /\ lastTool[1].who = "main"
    /\ lastTool[1].name = "Task"
    /\ ~lastTool[1].gate.proceed
    /\ lastTool[1].gate.allowed
    /\ lastTool[1].code = "hook_blocked"
    /\ messages[Len(messages)] = ToolMessage(lastTool[1].id)

---------------------------------------------------------------------------
(* Claims about plan mode                                                   *)

\* The tools a planning turn is to be limited to.
PlanningTools == {"Read", "Grep", "Glob"}

\* C18: during a turn started in Planning, and while the phase is Planning,
\* the catalog holds only Read, Grep and Glob (no MCP tool), and no other
\* tool the model asks for is run: no call of another built-in tool, of an
\* MCP tool or of ActivateSkill passes to its handler, and no Task call
\* starts a subagent.
C18_PlanningReadOnly ==
    (turn.in_planning_mode /\ plan_mode.phase = "Planning") =>
        /\ turn.tool_schemas \subseteq PlanningTools
        /\ sub = None
        /\ (/\ lastTool # None
            /\ lastTool[1].who = "main"
            /\ lastTool[1].passed # None
            /\ lastTool[1].name \in BuiltinTools \cup McpTools \cup {"ActivateSkill"})
               => lastTool[1].name \in PlanningTools

\* The text holds a plan block or a STEP 1: marker.
HasPlanBlockOrMarker(content) ==
    \/ FindStr(content, Fence \o "plan") # 0
    \/ FindStr(content, "STEP 1:") # 0
    \/ FindStr(content, "Step 1:") # 0

\* C19: in a turn started in Planning, a response whose text parses to a plan
\* with at least one step sets the current plan's summary and steps to the
\* parsed ones, its status to Ready and the phase to Review, the goal kept; a
\* response whose text has no plan block and no STEP 1: marker, or parses to
\* no step, leaves the phase and the current plan as they were.
C19_PlanParsedToReview ==
    [][(pc = "llm" /\ turn.in_planning_mode /\ pc' \in {"stop", "tool"}
            /\ turn'.exit # "no_choices") =>
          LET content == turn'.content
              parsed  == parse_plan_output(content, PlanGoal(plan_mode))
          IN  /\ ~HasPlanBlockOrMarker(content) => parsed = None
              /\ IF parsed # None /\ Len(parsed[1].steps) >= 1
                 THEN /\ plan_mode'.phase = "Review"
                      /\ plan_mode'.current_plan # None
                      /\ plan_mode'.current_plan[1] =
                             [plan_mode.current_plan[1] EXCEPT
                                 !.summary = parsed[1].summary,
                                 !.steps = parsed[1].steps,
                                 !.status = "Ready"]
                 ELSE /\ plan_mode' = plan_mode
                      /\ plan_mode.phase = "Planning" => plan_mode'.phase = "Planning"]_vars

\* The plan block with two steps has been parsed into the current plan.
C19_Witness ==
    /\ turn.in_planning_mode
    /\ HasPlanBlockOrMarker(turn.content)
    /\ plan_mode.phase = "Review"
    /\ plan_mode.current_plan # None
    /\ plan_mode.current_plan[1].status = "Ready"
    /\ plan_mode.current_plan[1].goal \in PlanGoals
    /\ plan_mode.current_plan[1].summary = "fix it"
    /\ Len(plan_mode.current_plan[1].steps) = 2
    /\ plan_mode.current_plan[1].steps[1].title = "read"
    /\ plan_mode.current_plan[1].steps[1].files = <<"a.rs", "b.rs">>
    /\ plan_mode.current_plan[1].steps[2].number = 2

---------------------------------------------------------------------------
(* CommandStats::merge on its own, in both builds                           *)

\* The most merges into one CommandStats.
MaxMerges == 2

\* The values a field of CommandStats takes: none, some, the largest.
StatValues == {0, 5, U64Modulus - 1}

StatsPool ==
    [input_tokens : StatValues, output_tokens : StatValues, tool_uses : StatValues]

InitStats ==
    /\ overflow_checks \in BOOLEAN
    /\ \E st \in StatsPool : stats_self = Some(st) /\ merged = Some([start |-> st, others |-> <<>>])
    /\ ToolsIdle
    /\ SseIdle
    /\ ProcIdle
    /\ HsIdle
    /\ PatchIdle
    /\ EditIdle
    /\ StopIdle
    /\ BorrowIdle
    /\ PriceIdle
    /\ PolicyIdle
    /\ PathIdle
    /\ RpcIdle
    /\ AgentIdle

\* self.merge(&other) on the CommandStats.
Merge(other) ==
    /\ stats_self # None
    /\ Len(merged[1].others) < MaxMerges
    /\ stats_self' = merge(stats_self[1], other, overflow_checks)
    /\ merged' = Some([merged[1] EXCEPT !.others = Append(@, other)])
    /\ UNCHANGED <<overflow_checks, notStats>>

\* The stats merged: the default, small ones, and ones that make a field overflow.
MergedPool ==
    { CommandStatsDefault,
      [input_tokens |-> 1, output_tokens |-> 1, tool_uses |-> 1],
      [input_tokens |-> 5, output_tokens |-> 0, tool_uses |-> 5],
      [input_tokens |-> 5, output_tokens |-> 5, tool_uses |-> 5],
      [input_tokens |-> U64Modulus - 1, output_tokens |-> 0, tool_uses |-> 0],
      [input_tokens |-> 0, output_tokens |-> 0, tool_uses |-> U64Modulus - 1] }

NextStats == \E other \in MergedPool : Merge(other)

SpecStats == InitStats /\ [][NextStats]_vars

---------------------------------------------------------------------------
(* The names of MCP tools: McpClient::list_tools and the split at the dots  *)

\* The names the configuration may give to servers (keys of mcp.servers,
\* any string) and the tool names a server may advertise.
McpServerNames == {"calc", "a", "a.b"}

McpLocalNames == {"add", "b.add"}

\* The McpToolDef list_tools builds for a tool of a server.
McpToolDef(server_name, name) ==
    [server |-> server_name, name |-> name,
     full_name |-> "mcp." \o server_name \o "." \o name]

\* name.splitn(3, '.') and the match on its length in run_turn: the server
\* and the tool name, ("unknown", name) when there are fewer than three parts.
SplitServerTool(name) ==
    LET d1 == Find(name, ".")
        d2 == IF d1 = 0 THEN 0 ELSE FindFrom(name, ".", d1 + 1)
    IN  IF d2 = 0 THEN [server |-> "unknown", tool |-> name]
        ELSE [server |-> SubSeq(name, d1 + 1, d2 - 1), tool |-> DropFirst(name, d2)]

InitTools ==
    /\ advertised = {}
    /\ lastRoute = None
    /\ StatsIdle
    /\ SseIdle
    /\ ProcIdle
    /\ HsIdle
    /\ PatchIdle
    /\ EditIdle
    /\ StopIdle
    /\ BorrowIdle
    /\ PriceIdle
    /\ PolicyIdle
    /\ PathIdle
    /\ RpcIdle
    /\ AgentIdle

\* list_tools(server_name) on the client of a server not listed yet, which
\* answers tools/list with the names given.
ListTools(server_name, names) ==
    /\ \A d \in advertised : d.server # server_name
    /\ advertised' = advertised \cup {McpToolDef(server_name, n) : n \in names}
    /\ lastRoute' = None
    /\ UNCHANGED notTools

\* A call of an advertised tool by its full name, split at its dots.
RouteCall(def) ==
    /\ lastRoute' = Some([of |-> def, parts |-> SplitServerTool(def.full_name)])
    /\ UNCHANGED <<advertised, notTools>>

NextTools ==
    \/ \E sv \in McpServerNames, names \in (SUBSET McpLocalNames) \ {{}} : ListTools(sv, names)
    \/ \E def \in advertised : RouteCall(def)

SpecTools == InitTools /\ [][NextTools]_vars

---------------------------------------------------------------------------
(* The SSE transport: SseTransport::send and parse_sse_response             *)
(* sse holds the locals of parse_sse_response (request_id, data,            *)
(* events_read), its result ret, and what the stream has sent: acc, the     *)
(* data: fields of the event being sent, and expected, the first event sent *)
(* that answers the request.                                                *)

\* MAX_EVENTS is 1000 in the source; the comparison is kept and the number
\* scaled down.
MAX_EVENTS == 3

\* The lines a server sends, each as read_line returns it.
SseLines ==
    { "\n", ": ping\n", "event: message\n",
      "data: {\"id\":1}\n", "data:{\"id\":2}\n", "data: {}\n", "data: oops\n",
      "data: {\"id\":\n", "data: 1}\n" }

\* serde_json::from_str::<Value> on the texts the lines above can make: the
\* value, of which only its id member is kept, or None for an Err.
from_str(text) ==
    CASE text = "{\"id\":1}"   -> Some([id |-> Some(1)])
      [] text = "{\"id\":\n1}" -> Some([id |-> Some(1)])
      [] text = "{\"id\":2}"   -> Some([id |-> Some(2)])
      [] text = "{}"           -> Some([id |-> None])
      [] OTHER                 -> None

\* The ids a message sent may carry: message.get("id").and_then(as_u64).
SseRequestIds == {None, Some(1)}

\* Whether a parsed event is the response waited for.
IsResponse(req_id, value) ==
    value # None /\ (req_id = None \/ value[1].id = req_id)

\* The data of an event made of several data: fields: the fields joined by
\* line feeds.
RECURSIVE JoinFields(_)
JoinFields(fields) ==
    IF fields = <<>> THEN ""
    ELSE IF Len(fields) = 1 THEN fields[1]
    ELSE fields[1] \o "\n" \o JoinFields(Tail(fields))

\* No event of more than MaxFields data: fields is well-formed, so the
\* fields beyond are not kept.
MaxFields == 3

SseOk(value) == Some([ok |-> TRUE, value |-> value, error |-> ""])

SseErr(error) == Some([ok |-> FALSE, value |-> None, error |-> error])

\* send on a response of content type text/event-stream: parse_sse_response
\* begins.
SseFresh(req_id) ==
    [request_id |-> req_id, data |-> "", events_read |-> 0, examined |-> 0,
     ret |-> None, acc |-> <<>>, expected |-> None]

InitSse ==
    /\ \E req_id \in SseRequestIds : sse = Some(SseFresh(req_id))
    /\ StatsIdle
    /\ ToolsIdle
    /\ ProcIdle
    /\ HsIdle
    /\ PatchIdle
    /\ EditIdle
    /\ StopIdle
    /\ BorrowIdle
    /\ PriceIdle
    /\ PolicyIdle
    /\ PathIdle
    /\ RpcIdle
    /\ AgentIdle

\* A mutation: the cap is tested before the event is counted.
CapExceededLate(events_read) == events_read - 1 > MAX_EVENTS

\* events_read > MAX_EVENTS
CapExceeded(events_read) == events_read > MAX_EVENTS

\* What the stream has sent, after one more line: a data: field joins the
\* event being sent, a blank line ends it.
StreamAfter(st, line) ==
    LET l == trim(line)
    IN  IF StartsWith(l, "data:")
        THEN [st EXCEPT !.acc = IF Len(@) >= MaxFields THEN @
                                 ELSE Append(@, trim(DropFirst(l, 5)))]
        ELSE IF l = "" /\ st.acc # <<>>
        THEN LET value == from_str(JoinFields(st.acc))
             IN  [st EXCEPT !.acc = <<>>,
                            !.expected = IF @ = None /\ IsResponse(st.request_id, value)
                                         THEN Some(value[1]) ELSE @]
        ELSE st

\* One turn of the loop of parse_sse_response on Ok(n), n > 0.
ParseLine(st, line) ==
    LET l == trim(line)
    IN  IF StartsWith(l, "data:")
        THEN [st EXCEPT !.data = trim(DropFirst(l, 5))]
        ELSE IF l = "" /\ st.data # ""
        THEN LET events_read == st.events_read + 1
                 value == from_str(st.data)
             IN  IF CapExceeded(events_read)
                 THEN [st EXCEPT !.events_read = events_read, !.ret = SseErr("exceeded")]
                 ELSE IF IsResponse(st.request_id, value)
                 THEN [st EXCEPT !.events_read = events_read, !.examined = @ + 1,
                                 !.ret = SseOk(value[1])]
                 ELSE [st EXCEPT !.events_read = events_read, !.examined = @ + 1,
                                 !.data = ""]
        ELSE st

\* reader.read_line gives a line.
ReadLine(line) ==
    /\ sse # None
    /\ sse[1].ret = None
    /\ sse' = Some(ParseLine(StreamAfter(sse[1], line), line))
    /\ UNCHANGED notSse

\* reader.read_line gives Ok(0): the stream has ended.
ReadEof ==
    /\ sse # None
    /\ sse[1].ret = None
    /\ sse' = Some([sse[1] EXCEPT !.ret = SseErr("ended")])
    /\ UNCHANGED notSse

\* reader.read_line gives Err: the deadline of the request has passed, or
\* the connection failed.
ReadError ==
    /\ sse # None
    /\ sse[1].ret = None
    /\ sse' = Some([sse[1] EXCEPT !.ret = SseErr("read error")])
    /\ UNCHANGED notSse

NextSse ==
    \/ \E line \in SseLines : ReadLine(line)
    \/ ReadEof
    \/ ReadError

SpecSse == InitSse /\ [][NextSse]_vars

\* The request is sent with a timeout (the deadline of the whole request,
\* the reading of its response included): a read that is still waiting when
\* it passes gives Err.
SpecSseLive == SpecSse /\ WF_vars(ReadError)

---------------------------------------------------------------------------
(* The life of a transport: StdioTransport's child process, its reader      *)
(* thread, exit_status, kill and Drop                                       *)
(* proc is [kind, child, status, holders, reader, drop]: child is           *)
(* "running", "exited" (not waited for yet), "reaped" or "none" (http and   *)
(* sse have no child); status is the ExitStatus, its code None for a death  *)
(* by signal; holders are the processes that hold the write end of the      *)
(* child's stdout pipe; reader is the reader thread, drop the position of   *)
(* Drop::drop.                                                              *)

\* The health checks recorded in a run.
MaxChecks == 2

TransportKinds == {"stdio", "http", "sse"}

ExitCodes == {0, 1}

\* StdioTransport::spawn, HttpTransport::new, SseTransport::new
TransportNew(kind) ==
    IF kind = "stdio"
    THEN [kind |-> kind, child |-> "running", status |-> None, holders |-> {"child"},
          reader |-> "running", drop |-> "live"]
    ELSE [kind |-> kind, child |-> "none", status |-> None, holders |-> {},
          reader |-> "none", drop |-> "live"]

InitProc ==
    /\ \E kind \in TransportKinds : proc = Some(TransportNew(kind))
    /\ health = <<>>
    /\ StatsIdle
    /\ ToolsIdle
    /\ SseIdle
    /\ HsIdle
    /\ PatchIdle
    /\ EditIdle
    /\ StopIdle
    /\ BorrowIdle
    /\ PriceIdle
    /\ PolicyIdle
    /\ PathIdle
    /\ RpcIdle
    /\ AgentIdle

\* The child starts a process of its own, which inherits its stdout (a
\* command that is a shell or a launcher does).
ChildForks ==
    /\ proc # None
    /\ proc[1].child = "running"
    /\ "descendant" \notin proc[1].holders
    /\ proc' = Some([proc[1] EXCEPT !.holders = @ \cup {"descendant"}])
    /\ UNCHANGED <<health, notProc>>

\* The child exits with a code.
ChildExits(code) ==
    /\ proc # None
    /\ proc[1].child = "running"
    /\ proc' = Some([proc[1] EXCEPT !.child = "exited",
                                    !.status = Some([code |-> Some(code)]),
                                    !.holders = @ \ {"child"}])
    /\ UNCHANGED <<health, notProc>>

\* The child is ended by a signal: it has no exit code.
ChildSignalled ==
    /\ proc # None
    /\ proc[1].child = "running"
    /\ proc' = Some([proc[1] EXCEPT !.child = "exited",
                                    !.status = Some([code |-> None]),
                                    !.holders = @ \ {"child"}])
    /\ UNCHANGED <<health, notProc>>

\* The process the child started exits.
DescendantExits ==
    /\ proc # None
    /\ "descendant" \in proc[1].holders
    /\ proc' = Some([proc[1] EXCEPT !.holders = @ \ {"descendant"}])
    /\ UNCHANGED <<health, notProc>>

\* reader_loop: reader.lines() ends when every write end of the pipe is
\* closed; tx.send fails only once the receiver is dropped, which is after
\* Drop::drop has returned.
ReaderEnds ==
    /\ proc # None
    /\ proc[1].reader = "running"
    /\ proc[1].holders = {}
    /\ proc' = Some([proc[1] EXCEPT !.reader = "finished"])
    /\ UNCHANGED <<health, notProc>>

\* child.try_wait(): the state of the child after it (an exited child is
\* reaped, its status kept).
AfterTryWait(p) == IF p.child = "exited" THEN [p EXCEPT !.child = "reaped"] ELSE p

\* McpTransportImpl::exit_status: for stdio Ok(Some(status)) => status.code(),
\* anything else None.
exit_status(p) ==
    IF p.kind = "stdio" /\ p.child \in {"exited", "reaped"}
    THEN p.status[1].code
    ELSE None

\* check_server_health(server), which gives the exit_status of the server's
\* transport.
CheckHealth ==
    /\ proc # None
    /\ proc[1].drop = "live"
    /\ Len(health) < MaxChecks
    /\ health' = Append(health, [exited |-> proc[1].child \in {"exited", "reaped"},
                                 answer |-> exit_status(proc[1])])
    /\ proc' = Some(AfterTryWait(proc[1]))
    /\ UNCHANGED notProc

\* child.kill() then child.wait(): a running child is ended by SIGKILL, and
\* the child is reaped.
KillAndWait(p) ==
    [p EXCEPT !.child = IF @ = "none" THEN @ ELSE "reaped",
              !.status = IF p.child = "running" THEN Some([code |-> None]) ELSE @,
              !.holders = @ \ {"child"}]

\* McpTransportImpl::kill: StdioTransport::kill for stdio, nothing otherwise.
Kill ==
    /\ proc # None
    /\ proc[1].drop = "live"
    /\ proc[1].kind = "stdio"
    /\ proc[1].child # "reaped"
    /\ proc' = Some(KillAndWait(proc[1]))
    /\ UNCHANGED <<health, notProc>>

\* Drop::drop of StdioTransport: let _ = child.kill(); let _ = child.wait();
DropKill ==
    /\ proc # None
    /\ proc[1].drop = "live"
    /\ proc[1].kind = "stdio"
    /\ proc' = Some([KillAndWait(proc[1]) EXCEPT !.drop = "join"])
    /\ UNCHANGED <<health, notProc>>

\* Drop::drop of StdioTransport: handle.join(), which returns when
\* reader_loop has.
DropJoin ==
    /\ proc # None
    /\ proc[1].drop = "join"
    /\ proc[1].reader = "finished"
    /\ proc' = Some([proc[1] EXCEPT !.reader = "joined", !.drop = "dropped"])
    /\ UNCHANGED <<health, notProc>>

NextProc ==
    \/ ChildForks
    \/ \E code \in ExitCodes : ChildExits(code)
    \/ ChildSignalled
    \/ DescendantExits
    \/ ReaderEnds
    \/ CheckHealth
    \/ Kill
    \/ DropKill
    \/ DropJoin

SpecProc == InitProc /\ [][NextProc]_vars

\* The reader thread and the thread that drops the transport are scheduled;
\* nothing makes a process the child started exit.
SpecProcLive ==
    SpecProc /\ WF_vars(ReaderEnds) /\ WF_vars(DropKill) /\ WF_vars(DropJoin)

---------------------------------------------------------------------------
(* The handshake: McpClient::initialize, then list_tools, over stdio        *)
(* hs is [pc, next_id, inbox, rx, sent, init_ok, notify, unsolicited]:      *)
(* inbox holds the requests the server has not read yet, rx the messages    *)
(* of response_rx (the reader thread forwards every line in order); sent,   *)
(* init_ok and notify are history: the methods sent, whether initialize     *)
(* returned Ok, and what the receive after the notification got.            *)

\* The most messages a server sends on its own during a handshake.
MaxNotes == 2

HsFresh ==
    [pc |-> "start", next_id |-> 1, inbox |-> <<>>, rx |-> <<>>, sent |-> <<>>,
     init_ok |-> FALSE, notify |-> "none", unsolicited |-> 0]

InitHs ==
    /\ hs = Some(HsFresh)
    /\ StatsIdle
    /\ ToolsIdle
    /\ SseIdle
    /\ ProcIdle
    /\ PatchIdle
    /\ EditIdle
    /\ StopIdle
    /\ BorrowIdle
    /\ PriceIdle
    /\ PolicyIdle
    /\ PathIdle
    /\ RpcIdle
    /\ AgentIdle

\* handle_request of the calc server: the response, None for a notification.
handle_request(req) ==
    CASE req.method = "initialize" -> Some(RpcResponse(req.id[1]))
      [] req.method = "notifications/initialized" -> None
      [] req.method = "tools/list" -> Some(RpcResponse(req.id[1]))
      [] OTHER -> Some(RpcResponse(req.id[1]))

\* McpClient::call up to the receive: next_id, the request written to stdin.
HsCallSend(h, method, wait_pc) ==
    [h EXCEPT !.next_id = @ + 1,
              !.inbox = Append(@, [method |-> method, id |-> Some(h.next_id)]),
              !.sent = Append(@, method),
              !.pc = wait_pc]

\* self.transport.send(&notification): McpTransportImpl::send on stdio writes
\* the message and then calls recv_timeout(30 s).
SendNotification(h) ==
    [h EXCEPT !.inbox = Append(@, [method |-> "notifications/initialized", id |-> None]),
              !.sent = Append(@, "notifications/initialized"),
              !.pc = "notify_wait"]

\* initialize: self.call("initialize", ..) is sent.
SendInitialize ==
    /\ hs # None
    /\ hs[1].pc = "start"
    /\ hs' = Some(HsCallSend(hs[1], "initialize", "init_wait"))
    /\ UNCHANGED notHs

\* call returns Ok with the message received (a message without error
\* member), and initialize goes on to send the notification.
InitializeRecv ==
    /\ hs # None
    /\ hs[1].pc = "init_wait"
    /\ hs[1].rx # <<>>
    /\ hs' = Some(SendNotification([hs[1] EXCEPT !.rx = Tail(@), !.init_ok = TRUE]))
    /\ UNCHANGED notHs

\* recv_timeout gives Err: call returns it and so does initialize.
InitializeTimeout ==
    /\ hs # None
    /\ hs[1].pc = "init_wait"
    /\ hs[1].rx = <<>>
    /\ hs' = Some([hs[1] EXCEPT !.pc = "failed"])
    /\ UNCHANGED notHs

\* The receive after the notification takes the next message of the channel;
\* initialize drops it and returns Ok(result).
NotifyRecv ==
    /\ hs # None
    /\ hs[1].pc = "notify_wait"
    /\ hs[1].rx # <<>>
    /\ hs' = Some([hs[1] EXCEPT !.rx = Tail(@), !.notify = "message", !.pc = "initialized"])
    /\ UNCHANGED notHs

\* The receive after the notification finds nothing for 30 s; the error is
\* printed and initialize returns Ok(result).
NotifyTimeout ==
    /\ hs # None
    /\ hs[1].pc = "notify_wait"
    /\ hs[1].rx = <<>>
    /\ hs' = Some([hs[1] EXCEPT !.notify = "timeout", !.pc = "initialized"])
    /\ UNCHANGED notHs

\* list_tools: self.call("tools/list", None) is sent.
SendToolsList ==
    /\ hs # None
    /\ hs[1].pc = "initialized"
    /\ hs' = Some(HsCallSend(hs[1], "tools/list", "list_wait"))
    /\ UNCHANGED notHs

\* The call of tools/list returns, with a message or with the timeout error.
ToolsListReturns ==
    /\ hs # None
    /\ hs[1].pc = "list_wait"
    /\ hs' = Some([hs[1] EXCEPT !.rx = IF @ = <<>> THEN @ ELSE Tail(@), !.pc = "listed"])
    /\ UNCHANGED notHs

\* The server reads a request and writes what handle_request gives.
HsServerHandle ==
    /\ hs # None
    /\ hs[1].inbox # <<>>
    /\ LET resp == handle_request(Head(hs[1].inbox))
       IN  hs' = Some([hs[1] EXCEPT !.inbox = Tail(@),
                                    !.rx = IF resp = None THEN @ ELSE Append(@, resp[1])])
    /\ UNCHANGED notHs

\* A server writes a message nobody asked for (a notification of its own).
HsServerUnsolicited ==
    /\ hs # None
    /\ hs[1].unsolicited < MaxNotes
    /\ hs[1].pc \notin {"failed", "listed"}
    /\ hs' = Some([hs[1] EXCEPT !.rx = Append(@, RpcNotification), !.unsolicited = @ + 1])
    /\ UNCHANGED notHs

NextHs ==
    \/ SendInitialize
    \/ InitializeRecv
    \/ InitializeTimeout
    \/ NotifyRecv
    \/ NotifyTimeout
    \/ SendToolsList
    \/ ToolsListReturns
    \/ HsServerHandle
    \/ HsServerUnsolicited

SpecHs == InitHs /\ [][NextHs]_vars

---------------------------------------------------------------------------
(* The Patch tool: tools::patch::execute                                    *)
(* pfs maps the paths that exist to [kind |-> "dir"], to a symlink or to    *)
(* [kind |-> "file", content |-> c]. A patch is what Patch::from_str makes  *)
(* of its text: the headers original and modified, and hunks that turn the  *)
(* content from into the content to.                                        *)

PatchDir == [kind |-> "dir"]

PatchFile(content) == [kind |-> "file", content |-> content]

\* The tree a call starts from: root r with r/a/f, a symlink r/link to the
\* directory out beside the root, and out/s.
PatchFsStart ==
    (<<>> :> PatchDir) @@ (<<"r">> :> PatchDir) @@ (<<"r", "a">> :> PatchDir)
        @@ (<<"r", "a", "f">> :> PatchFile("A"))
        @@ (<<"r", "link">> :> [kind |-> "symlink", target |-> <<"out">>])
        @@ (<<"out">> :> PatchDir) @@ (<<"out", "s">> :> PatchFile("S"))

ParsedPatch(original, modified, from, to) ==
    [text |-> "diff", parses |-> TRUE, original |-> original, modified |-> modified,
     from |-> from, to |-> to]

\* The patches given: edits of r/a/f, new files, a patch without headers, one
\* that removes all lines, one whose context does not match, ones aimed
\* outside the root, an empty text and a text that is no patch.
PatchPool ==
    { ParsedPatch(Some("a/a/f"), Some("b/a/f"), "A", "B"),
      ParsedPatch(Some("a/a/f"), Some("b/a/f"), "B", "A"),
      ParsedPatch(Some("/dev/null"), Some("b/a/new"), "", "N"),
      ParsedPatch(Some("/dev/null"), Some("b/n/new"), "", "N"),
      ParsedPatch(Some("a/a/f"), Some("/dev/null"), "A", ""),
      ParsedPatch(None, None, "A", "B"),
      ParsedPatch(Some("a/a/f"), Some("b/a/f"), "Z", "B"),
      ParsedPatch(Some("a/../out/s"), Some("b/../out/s"), "S", "X"),
      ParsedPatch(Some("/dev/null"), Some("b/link/new"), "", "N"),
      [text |-> "", parses |-> FALSE, original |-> None, modified |-> None,
       from |-> "", to |-> ""],
      [text |-> "not a valid patch", parses |-> FALSE, original |-> None,
       modified |-> None, from |-> "", to |-> ""] }

\* args["path"] and args["dry_run"] as given: None when the member is absent.
PatchPathArgs == {None, Some("a/f"), Some("a/new")}

DryRunArgs == {None, Some(TRUE), Some(FALSE)}

\* strip_git_prefix
strip_git_prefix(path) ==
    IF StartsWith(path, "a/") \/ StartsWith(path, "b/") THEN DropFirst(path, 2) ELSE path

\* diffy::apply: the hunks apply to the content they were made from.
apply(original, patch) == IF original = patch.from THEN Some(patch.to) ELSE None

PatchError(code) == [error |-> code, success |-> FALSE, dry_run |-> FALSE, files_modified |-> 0]

PatchSuccess(dry_run) ==
    [error |-> "", success |-> TRUE, dry_run |-> dry_run,
     files_modified |-> IF dry_run THEN 0 ELSE 1]

\* std::fs::create_dir_all(dir): the directories of the path that are missing.
create_dir_all(fs, dir) ==
    LET missing == {SubSeq(dir, 1, k) : k \in 1..Len(dir)} \ DOMAIN fs
    IN  fs @@ [q \in missing |-> PatchDir]

\* Whether std::fs::write(path) can make or truncate the file.
CanWrite(fs, path) ==
    /\ Pop(path) \in DOMAIN fs
    /\ fs[Pop(path)].kind = "dir"
    /\ path \in DOMAIN fs => fs[path].kind = "file"

\* std::fs::write(path, content) that succeeds.
fs_write(fs, path, content) ==
    [q \in DOMAIN fs \cup {path} |-> IF q = path THEN PatchFile(content) ELSE fs[q]]

\* A mutation: the file is written whatever dry_run says.
WritesAlways(dry_run) == TRUE

\* if !dry_run { .. }
Writes(dry_run) == ~dry_run

\* The target path of the patch: the path given, else the modified header,
\* else the original one, without "a/" or "b/"; None when there is none.
PatchTarget(patch, explicit_path) ==
    IF explicit_path # None THEN explicit_path
    ELSE LET original == IF patch.original = None THEN "" ELSE patch.original[1]
             modified == IF patch.modified = None THEN "" ELSE patch.modified[1]
         IN  IF modified # "" /\ modified # "/dev/null" THEN Some(strip_git_prefix(modified))
             ELSE IF original # "" /\ original # "/dev/null"
             THEN Some(strip_git_prefix(original))
             ELSE None

\* execute from the validated path on: the result and the filesystem after.
PatchApply(fs, patch, full_path, dry_run) ==
    LET is_new_file == patch.original = Some("/dev/null")
        readable    == full_path \in DOMAIN fs /\ fs[full_path].kind = "file"
        original    == IF is_new_file THEN "" ELSE IF readable THEN fs[full_path].content ELSE ""
        new_content == apply(original, patch)
    IN  IF ~is_new_file /\ ~readable THEN [result |-> PatchError("read_error"), fs |-> fs]
        ELSE IF new_content = None THEN [result |-> PatchError("hunk_failed"), fs |-> fs]
        ELSE IF ~Writes(dry_run) THEN [result |-> PatchSuccess(dry_run), fs |-> fs]
        ELSE LET dirs == IF is_new_file THEN create_dir_all(fs, Pop(full_path)) ELSE fs
             IN  IF ~CanWrite(dirs, full_path)
                 THEN [result |-> PatchError("write_error"), fs |-> dirs]
                 ELSE [result |-> PatchSuccess(dry_run),
                       fs |-> fs_write(dirs, full_path, new_content[1])]

\* tools::patch::execute(args, root)
patch_execute(fs, patch, explicit_path, dry_run_arg) ==
    LET dry_run == IF dry_run_arg = None THEN FALSE ELSE dry_run_arg[1]
        target  == PatchTarget(patch, explicit_path)
    IN  IF patch.text = "" \/ ~patch.parses \/ target = None
        THEN [result |-> PatchError("invalid_patch"), fs |-> fs]
        ELSE LET full_path == validate_path(fs, target[1], Root)
             IN  IF ~full_path.ok THEN [result |-> PatchError(full_path.code), fs |-> fs]
                 ELSE PatchApply(fs, patch, full_path.path, dry_run)

InitPatch ==
    /\ pfs = Some(PatchFsStart)
    /\ lastPatch = None
    /\ StatsIdle
    /\ ToolsIdle
    /\ SseIdle
    /\ ProcIdle
    /\ HsIdle
    /\ EditIdle
    /\ StopIdle
    /\ BorrowIdle
    /\ PriceIdle
    /\ PolicyIdle
    /\ PathIdle
    /\ RpcIdle
    /\ AgentIdle

\* A Patch call.
PatchExecute(patch, explicit_path, dry_run_arg) ==
    /\ pfs # None
    /\ \E out \in {patch_execute(pfs[1], patch, explicit_path, dry_run_arg)} :
          /\ pfs' = Some(out.fs)
          /\ lastPatch' = Some([patch |-> patch, path |-> explicit_path,
                                dry_run |-> dry_run_arg, result |-> out.result])
    /\ UNCHANGED notPatch

NextPatch ==
    \E patch \in PatchPool, explicit_path \in PatchPathArgs, dry_run_arg \in DryRunArgs :
        PatchExecute(patch, explicit_path, dry_run_arg)

SpecPatch == InitPatch /\ [][NextPatch]_vars

---------------------------------------------------------------------------
(* The Edit tool: tools::edit::execute                                      *)
(* efile is the file at the validated path: its content and whether the    *)
(* process may write it. An edit is [find, replace, count], count None when *)
(* the member is absent.                                                    *)

\* The most edits in one call.
MaxEdits == 2

\* sha256, kept apart from the text it hashes; equal digests mean equal texts.
sha256(text) == <<"sha256", text>>

EditContents == {"abab", "xyz"}

EditNew(find, replace, count) == [find |-> find, replace |-> replace, count |-> count]

\* The edits given: finds that occur, that do not, the empty find; count
\* absent, 0 (all), 2 and negative.
EditPool ==
    { EditNew("a", "x", None), EditNew("ab", "", Some(0)), EditNew("b", "a", Some(2)),
      EditNew("q", "x", None), EditNew("ba", "q", Some(0)), EditNew("zz", "a", Some(-1)),
      EditNew("", "x", Some(0)), EditNew("y", "", Some(-1)) }

\* The while loop of execute: at most remaining occurrences of find, from
\* the left and not overlapping, are replaced. [text, applied].
RECURSIVE ReplaceN(_, _, _, _)
ReplaceN(rest, find, replace, remaining) ==
    IF remaining = 0 THEN [text |-> rest, applied |-> 0]
    ELSE LET pos == FindStr(rest, find)
         IN  IF pos = 0 THEN [text |-> rest, applied |-> 0]
             ELSE LET r == ReplaceN(DropFirst(rest, pos - 1 + Len(find)), find, replace,
                                    remaining - 1)
                  IN  [text |-> SubSeq(rest, 1, pos - 1) \o replace \o r.text,
                       applied |-> r.applied + 1]

\* One edit on the content: an empty find is skipped; count 0 is
\* content.matches(find).count() and content.replace(find, replace); any
\* other count is `count as usize` rounds of the loop, which for a negative
\* count is more than the content has occurrences.
ApplyEdit(content, edit) ==
    LET count == IF edit.count = None THEN 1 ELSE edit.count[1]
    IN  IF edit.find = "" THEN [text |-> content, applied |-> 0]
        ELSE IF count <= 0 THEN ReplaceN(content, edit.find, edit.replace, Len(content) + 1)
        ELSE ReplaceN(content, edit.find, edit.replace, count)

\* The for loop over args["edits"].
RECURSIVE ApplyEdits(_, _, _)
ApplyEdits(content, total_applied, edits) ==
    IF edits = <<>> THEN [text |-> content, applied |-> total_applied]
    ELSE LET r == ApplyEdit(content, Head(edits))
         IN  ApplyEdits(r.text, total_applied + r.applied, Tail(edits))

\* tools::edit::execute on a path that validates and reads: the result and
\* the file after. std::fs::write is called whatever was applied, and fails
\* on a file the process may not write.
edit_execute(file, edits) ==
    LET r == ApplyEdits(file.content, 0, edits)
    IN  IF ~file.writable
        THEN [result |-> [error |-> "write_error", applied |-> 0,
                          before_sha256 |-> <<>>, after_sha256 |-> <<>>],
              file |-> file]
        ELSE [result |-> [error |-> "", applied |-> r.applied,
                          before_sha256 |-> sha256(file.content),
                          after_sha256 |-> sha256(r.text)],
              file |-> [file EXCEPT !.content = r.text]]

InitEdit ==
    /\ \E content \in EditContents, writable \in BOOLEAN :
          efile = Some([content |-> content, writable |-> writable])
    /\ lastEdit = None
    /\ StatsIdle
    /\ ToolsIdle
    /\ SseIdle
    /\ ProcIdle
    /\ HsIdle
    /\ PatchIdle
    /\ StopIdle
    /\ BorrowIdle
    /\ PriceIdle
    /\ PolicyIdle
    /\ PathIdle
    /\ RpcIdle
    /\ AgentIdle

EditSeqs == UNION {[1..n -> EditPool] : n \in 0..MaxEdits}

\* An Edit call.
EditExecute(edits) ==
    /\ efile # None
    /\ \E out \in {edit_execute(efile[1], edits)} :
          /\ efile' = Some(out.file)
          /\ lastEdit' = Some([edits |-> edits, before |-> efile[1].content,
                               result |-> out.result])
    /\ UNCHANGED notEdit

NextEdit == \E edits \in EditSeqs : EditExecute(edits)

SpecEdit == InitEdit /\ [][NextEdit]_vars

---------------------------------------------------------------------------
(* The REPL: several turns on one messages list (cli::run_repl)             *)

\* The most inputs a user gives in a conversation.
MaxInputs == 2

UserMessages(msgs) == {p \in 1..Len(msgs) : msgs[p].role = "user"}

InitRepl ==
    /\ InitAgent
    /\ cfgMode = "default"
    /\ maxTurnsArg = Some(MaxTurns)

\* run_repl reads another line after a turn has returned, with Ok or with
\* Err, and calls run_turn on the same messages.
NextInput ==
    /\ messages # <<>>
    /\ Cardinality(UserMessages(messages)) < MaxInputs
    /\ BeginTurn({})

\* The calls the model asks for in a conversation: a built-in tool, a
\* subagent, an MCP tool, a skill and a name no handler knows.
ReplCalls ==
    { [name |-> "Read", args |-> [path |-> "a.rs"]],
      [name |-> "Task", args |-> [agent |-> "scout", prompt |-> "p"]],
      [name |-> "mcp.echo.add", args |-> EmptyArgs],
      [name |-> "ActivateSkill", args |-> [name |-> "rust"]],
      [name |-> "Frob", args |-> EmptyArgs] }

\* The subagent answers with text or fails.
ReplSubResponses ==
    {[kind |-> "error", n |-> 0, content |-> ""], [kind |-> "text", n |-> 0, content |-> ""]}

NextRepl ==
    \/ StartTurn({})
    \/ NextInput
    \/ \E resp \in LlmResponses(iteration, turn.in_planning_mode) : LlmCall(resp)
    \/ \E call \in ReplCalls \cap MainCallsAt(iteration), fails \in BOOLEAN :
         \E hook \in PreToolUseOutcomes(call.name) : HandleToolCall(call, hook, TRUE, fails)
    \/ \E resp \in ReplSubResponses : SubLlmCall(resp)
    \/ TaskEnd
    \/ EndTurn([force_continue |-> FALSE, continue_prompt |-> None])

SpecRepl == InitRepl /\ [][NextRepl]_vars

---------------------------------------------------------------------------
(* The text run_turn hands to the stop hook, over the turns of a            *)
(* conversation                                                            *)

\* msg.content of a response: absent (null in the message) or a text.
Contents == {None, Some("done")}

ChatMsg(role, content) == [role |-> role, content |-> content]

\* messages.iter().rev().find_map(..): the content of the last message that
\* is an assistant message and whose content is a string.
RECURSIVE last_assistant_message(_)
last_assistant_message(msgs) ==
    IF msgs = <<>> THEN None
    ELSE LET m == msgs[Len(msgs)]
         IN  IF m.role = "assistant" /\ m.content # None THEN m.content
             ELSE last_assistant_message(SubSeq(msgs, 1, Len(msgs) - 1))

InitChat ==
    /\ chat = <<>>
    /\ chatPc = "idle"
    /\ chatStart = 0
    /\ chatIter = 0
    /\ lastStop = None
    /\ StatsIdle
    /\ ToolsIdle
    /\ SseIdle
    /\ ProcIdle
    /\ HsIdle
    /\ PatchIdle
    /\ EditIdle
    /\ BorrowIdle
    /\ PriceIdle
    /\ PolicyIdle
    /\ PathIdle
    /\ RpcIdle
    /\ AgentIdle

\* run_turn is called with the next input: the user message is pushed.
ChatInput ==
    /\ chatPc = "idle"
    /\ Cardinality({p \in 1..Len(chat) : chat[p].role = "user"}) < MaxInputs
    /\ chatStart' = Len(chat)
    /\ chat' = Append(chat, ChatMsg("user", Some("input")))
    /\ chatIter' = 1
    /\ chatPc' = "llm"
    /\ UNCHANGED <<lastStop, notStop>>

\* client.chat fails: `?` leaves run_turn, the stop hook is not called.
ChatLlmError ==
    /\ chatPc = "llm"
    /\ chatPc' = "idle"
    /\ UNCHANGED <<chat, chatStart, chatIter, lastStop, notStop>>

\* A response without choices: break, no message is pushed.
ChatNoChoices ==
    /\ chatPc = "llm"
    /\ chatPc' = "stop"
    /\ UNCHANGED <<chat, chatStart, chatIter, lastStop, notStop>>

\* A response without tool calls: the assistant message is pushed, break.
ChatText(content) ==
    /\ chatPc = "llm"
    /\ chat' = Append(chat, ChatMsg("assistant", content))
    /\ chatPc' = "stop"
    /\ UNCHANGED <<chatStart, chatIter, lastStop, notStop>>

\* A response with a tool call: the assistant message and the tool message of
\* the call are pushed; the loop goes on unless this was the last iteration.
ChatToolCall(content) ==
    /\ chatPc = "llm"
    /\ chat' = chat \o <<ChatMsg("assistant", content), ChatMsg("tool", Some("result"))>>
    /\ IF LoopContinues(chatIter, MaxTurns)
       THEN chatIter' = chatIter + 1 /\ chatPc' = "llm"
       ELSE chatIter' = chatIter /\ chatPc' = "stop"
    /\ UNCHANGED <<chatStart, lastStop, notStop>>

\* After the loop: hooks.on_stop("end_turn", last_assistant_message).
ChatStop ==
    /\ chatPc = "stop"
    /\ lastStop' = Some([text |-> last_assistant_message(chat)])
    /\ chatPc' = "idle"
    /\ UNCHANGED <<chat, chatStart, chatIter, notStop>>

NextChat ==
    \/ ChatInput
    \/ ChatLlmError
    \/ ChatNoChoices
    \/ \E content \in Contents : ChatText(content)
    \/ \E content \in Contents : ChatToolCall(content)
    \/ ChatStop

SpecChat == InitChat /\ [][NextChat]_vars

\* The assistant messages the current turn has pushed.
TurnAssistants == {p \in (chatStart + 1)..Len(chat) : chat[p].role = "assistant"}

---------------------------------------------------------------------------
(* A turn in which the model calls the tools of the catalog it was offered  *)

\* The arguments the model gives to a tool of the catalog.
CatalogArgs(name) ==
    IF name = "Task" THEN [agent |-> "scout", prompt |-> "p"]
    ELSE IF name = "ActivateSkill" THEN [name |-> "rust"]
    ELSE IF name = "Bash" THEN [command |-> "git diff"]
    ELSE IF name \in {"Read", "Write", "Edit", "Patch"} THEN [path |-> "a.rs"]
    ELSE EmptyArgs

InitCatalog ==
    /\ InitAgent
    /\ cfgMode \in {"default", "bypassPermissions"}
    /\ maxTurnsArg = Some(1)

NextCatalog ==
    \/ \E mentioned \in SUBSET SkillIndex : StartTurn(mentioned)
    \/ \E resp \in LlmResponses(iteration, turn.in_planning_mode) : LlmCall(resp)
    \/ \E name \in turn.tool_schemas, answer \in BOOLEAN, fails \in BOOLEAN :
         \E hook \in PreToolUseOutcomes(name) :
            HandleToolCall([name |-> name, args |-> CatalogArgs(name)], hook, answer, fails)
    \/ \E resp \in ReplSubResponses : SubLlmCall(resp)
    \/ TaskEnd
    \/ EndTurn([force_continue |-> FALSE, continue_prompt |-> None])

SpecCatalog == InitCatalog /\ [][NextCatalog]_vars

---------------------------------------------------------------------------
(* The RefCell borrows of the session components on the path of a turn:     *)
(* run_turn, Task, run_subagent and their tool dispatch                     *)

\* The operations of a routine on the RefCells of the Context: a borrow bound
\* to a local, its release by drop or at the end of its scope, a borrow that
\* lives for one statement, a call of one of several routines, and a `?` that
\* may return from the function whose body the routine belongs to.
Borrow(c) == [k |-> "borrow", c |-> c]

BorrowMut(c) == [k |-> "borrow_mut", c |-> c]

Drop(c) == [k |-> "drop", c |-> c]

Temp(c) == [k |-> "temp", c |-> c]

TempMut(c) == [k |-> "temp_mut", c |-> c]

Call(routines) == [k |-> "call", to |-> routines]

Try(function) == [k |-> "try", of |-> function]

\* n times the same operation: the iterations of a loop.
Times(n, op) == [i \in 1..n |-> op]

\* A mutation of the $mention loop: the shared borrow of active_skills is
\* still live when the mutable one is taken.
AutoActivateNoDrop ==
    << Borrow("skill_index"), Borrow("active_skills"), BorrowMut("active_skills"),
       TempMut("transcript"), Drop("active_skills"), Drop("active_skills"),
       Drop("skill_index") >>

\* run_turn, the $mention loop (agent.rs:94-116).
AutoActivate ==
    << Borrow("skill_index"), Borrow("active_skills"), Drop("active_skills"),
       BorrowMut("active_skills"), TempMut("transcript"), Drop("active_skills"),
       Drop("skill_index") >>

\* run_turn up to its loop, its loop and the stop hook.
RunTurn ==
    << TempMut("transcript"),
       Borrow("current_target"), Temp("config"), Try("run_turn"), Drop("current_target"),
       Temp("config"), Temp("plan_mode"),
       Call({"auto_activate", "skip"}),
       Call({"mcp_schemas", "skip"}),
       Borrow("active_skills"), Drop("active_skills") >>
    \o Times(MaxTurns, Call({"iteration", "skip"}))
    \o << Temp("hooks") >>

\* if !in_planning_mode: the MCP tools are added to the catalog.
McpSchemas == << Borrow("mcp_manager"), Drop("mcp_manager") >>

\* One iteration of the loop of run_turn: the LLM call with the backends
\* borrowed, the usage, the assistant text, the plan, the tool calls.
Iteration ==
    << BorrowMut("backends"), Try("run_turn"),
       Borrow("skill_index"), Drop("skill_index"),
       Borrow("active_skills"), Drop("active_skills"),
       Try("run_turn"), Drop("backends"),
       Temp("turn_counter"), TempMut("session_costs"), TempMut("transcript"),
       TempMut("transcript"),
       Call({"plan_parse", "skip"}) >>
    \o Times(MaxCalls, Call({"tool_call", "skip"}))

\* if in_planning_mode: the parsed plan is written to ctx.plan_mode.
PlanParse ==
    << Temp("plan_mode"), BorrowMut("plan_mode"), Drop("plan_mode"), TempMut("transcript") >>

\* One tool call of run_turn: transcript, policy, hook, dispatch, transcript,
\* post-tool hook.
ToolCall ==
    << TempMut("transcript"), Temp("policy"), TempMut("transcript"), Temp("hooks"),
       Call({"activate_skill", "task", "mcp_call", "skip"}),
       TempMut("transcript"), Temp("hooks") >>

\* The ActivateSkill branch of the dispatch.
ActivateSkill ==
    << Borrow("skill_index"), BorrowMut("active_skills"), TempMut("transcript"),
       Drop("active_skills"), Drop("skill_index") >>

\* The MCP branch of the dispatch of run_turn.
McpCall ==
    << BorrowMut("mcp_manager"), TempMut("transcript"), TempMut("transcript"),
       TempMut("transcript"), Drop("mcp_manager") >>

\* tools::task::execute: the agent's spec is cloned from the config, then
\* run_subagent.
TaskExecute == << Borrow("config"), Drop("config"), Call({"run_subagent"}) >>

\* run_subagent: its setup, its loop, the transcript and the stop hook.
RunSubagent ==
    << Temp("config"), TempMut("transcript"),
       Borrow("policy"), Drop("policy"),
       Borrow("config"), Borrow("current_target"), Try("run_subagent"),
       Drop("current_target"), Borrow("model_router"), Drop("model_router"), Drop("config"),
       Borrow("mcp_manager"), Drop("mcp_manager") >>
    \o Times(MaxTurns, Call({"sub_iteration", "skip"}))
    \o << TempMut("transcript"), Temp("hooks") >>

\* One iteration of the loop of run_subagent.
SubIteration ==
    << BorrowMut("backends"), Try("run_subagent"), Drop("backends"),
       Temp("turn_counter"), TempMut("session_costs"), TempMut("transcript") >>
    \o Times(MaxCalls, Call({"sub_tool_call", "skip"}))

\* One tool call of run_subagent.
SubToolCallBorrows ==
    << TempMut("transcript"), TempMut("transcript"), Call({"sub_mcp_call", "skip"}) >>

\* The MCP branch of the dispatch of run_subagent.
SubMcpCall == << BorrowMut("mcp_manager"), Drop("mcp_manager") >>

\* The operations of each routine and the function whose body it is part of.
Routine(name) ==
    CASE name = "run_turn"       -> [ops |-> RunTurn, of |-> "run_turn"]
      [] name = "auto_activate"  -> [ops |-> AutoActivate, of |-> "run_turn"]
      [] name = "mcp_schemas"    -> [ops |-> McpSchemas, of |-> "run_turn"]
      [] name = "iteration"      -> [ops |-> Iteration, of |-> "run_turn"]
      [] name = "plan_parse"     -> [ops |-> PlanParse, of |-> "run_turn"]
      [] name = "tool_call"      -> [ops |-> ToolCall, of |-> "run_turn"]
      [] name = "activate_skill" -> [ops |-> ActivateSkill, of |-> "run_turn"]
      [] name = "mcp_call"       -> [ops |-> McpCall, of |-> "run_turn"]
      [] name = "task"           -> [ops |-> TaskExecute, of |-> "task"]
      [] name = "run_subagent"   -> [ops |-> RunSubagent, of |-> "run_subagent"]
      [] name = "sub_iteration"  -> [ops |-> SubIteration, of |-> "run_subagent"]
      [] name = "sub_tool_call"  -> [ops |-> SubToolCallBorrows, of |-> "run_subagent"]
      [] name = "sub_mcp_call"   -> [ops |-> SubMcpCall, of |-> "run_subagent"]
      [] OTHER                   -> [ops |-> <<>>, of |-> "none"]

\* RefCell::borrow succeeds unless a mutable borrow is live, borrow_mut unless
\* any borrow is.
CanBorrow(live, c) == ~\E i \in 1..Len(live) : live[i].c = c /\ live[i].mut

CanBorrowMut(live, c) == ~\E i \in 1..Len(live) : live[i].c = c

\* The live borrows without the youngest one of c.
Released(live, c) ==
    LET last == CHOOSE i \in 1..Len(live) :
                    live[i].c = c /\ \A j \in (i + 1)..Len(live) : live[j].c # c
    IN  SubSeq(live, 1, last - 1) \o SubSeq(live, last + 1, Len(live))

\* The frame in which the body of a function starts, seen from the top.
FunctionFrame(stack, function) ==
    CHOOSE d \in 1..Len(stack) :
        /\ \A e \in d..Len(stack) : Routine(stack[e].r).of = function
        /\ d = 1 \/ Routine(stack[d - 1].r).of # function

InitBorrow ==
    /\ held = <<>>
    /\ frames = << [r |-> "run_turn", i |-> 1] >>
    /\ panicked = FALSE
    /\ StatsIdle
    /\ ToolsIdle
    /\ SseIdle
    /\ ProcIdle
    /\ HsIdle
    /\ PatchIdle
    /\ EditIdle
    /\ StopIdle
    /\ PriceIdle
    /\ PolicyIdle
    /\ PathIdle
    /\ RpcIdle
    /\ AgentIdle

\* The frames with the top one moved past its current operation.
Advanced(stack) == [stack EXCEPT ![Len(stack)].i = @ + 1]

\* The top frame has run all its operations: it returns to its caller.
FrameReturns ==
    /\ ~panicked
    /\ frames # <<>>
    /\ frames[Len(frames)].i > Len(Routine(frames[Len(frames)].r).ops)
    /\ frames' = SubSeq(frames, 1, Len(frames) - 1)
    /\ UNCHANGED <<held, panicked, notBorrow>>

\* The next operation of the top frame is a borrow, a borrow_mut or a drop.
BorrowStep ==
    /\ ~panicked
    /\ frames # <<>>
    /\ frames[Len(frames)].i <= Len(Routine(frames[Len(frames)].r).ops)
    /\ LET top == frames[Len(frames)]
           op  == Routine(top.r).ops[top.i]
       IN  /\ op.k \in {"borrow", "borrow_mut", "drop", "temp", "temp_mut"}
           /\ IF op.k = "drop"
              THEN /\ held' = Released(held, op.c)
                   /\ panicked' = FALSE
              ELSE IF (op.k \in {"borrow", "temp"} /\ CanBorrow(held, op.c))
                      \/ (op.k \in {"borrow_mut", "temp_mut"} /\ CanBorrowMut(held, op.c))
              THEN /\ held' = IF op.k \in {"temp", "temp_mut"} THEN held
                              ELSE Append(held, [c |-> op.c, mut |-> op.k = "borrow_mut",
                                                 depth |-> Len(frames)])
                   /\ panicked' = FALSE
              ELSE /\ held' = held
                   /\ panicked' = TRUE
           /\ frames' = Advanced(frames)
    /\ UNCHANGED notBorrow

\* The next operation is a call: one of its routines is entered, "skip" is
\* the branch not taken.
CallStep(routine) ==
    /\ ~panicked
    /\ frames # <<>>
    /\ frames[Len(frames)].i <= Len(Routine(frames[Len(frames)].r).ops)
    /\ LET top == frames[Len(frames)]
           op  == Routine(top.r).ops[top.i]
       IN  /\ op.k = "call"
           /\ routine \in op.to
           /\ frames' = IF routine = "skip" THEN Advanced(frames)
                        ELSE Append(Advanced(frames), [r |-> routine, i |-> 1])
    /\ UNCHANGED <<held, panicked, notBorrow>>

\* The next operation is a `?`: it passes, or it returns Err from its
\* function, and the locals of that function are dropped.
TryStep(fails) ==
    /\ ~panicked
    /\ frames # <<>>
    /\ frames[Len(frames)].i <= Len(Routine(frames[Len(frames)].r).ops)
    /\ LET top == frames[Len(frames)]
           op  == Routine(top.r).ops[top.i]
       IN  /\ op.k = "try"
           /\ IF fails
              THEN LET d == FunctionFrame(frames, op.of)
                   IN  /\ frames' = SubSeq(frames, 1, d - 1)
                       /\ held' = SelectSeq(held, LAMBDA b : b.depth < d)
              ELSE /\ frames' = Advanced(frames)
                   /\ held' = held
    /\ UNCHANGED <<panicked, notBorrow>>

NextBorrow ==
    \/ FrameReturns
    \/ BorrowStep
    \/ \E routine \in {"auto_activate", "mcp_schemas", "iteration", "plan_parse", "tool_call",
                       "activate_skill", "mcp_call", "task", "run_subagent", "sub_iteration",
                       "sub_tool_call", "sub_mcp_call", "skip"} : CallStep(routine)
    \/ \E fails \in BOOLEAN : TryStep(fails)

SpecBorrow == InitBorrow /\ [][NextBorrow]_vars

---------------------------------------------------------------------------
(* PricingTable::get on tables built by PricingTable::with_defaults         *)

\* The most lookups of a behaviour.
MaxLookups == 2

\* ModelPricing::new(input, output), in cents per million tokens.
ModelPricing(input, output) == [input |-> input, output |-> output]

\* The entries of with_defaults in the order of their insertion.
with_defaults ==
    << <<"gpt-4o", ModelPricing(250, 1000)>>,
       <<"gpt-4o-mini", ModelPricing(15, 60)>>,
       <<"gpt-4-turbo", ModelPricing(1000, 3000)>>,
       <<"gpt-3.5-turbo", ModelPricing(50, 150)>>,
       <<"o1", ModelPricing(1500, 6000)>>,
       <<"o1-mini", ModelPricing(300, 1200)>>,
       <<"o1-preview", ModelPricing(1500, 6000)>>,
       <<"claude-3-5-sonnet-latest", ModelPricing(300, 1500)>>,
       <<"claude-3-5-sonnet-20241022", ModelPricing(300, 1500)>>,
       <<"claude-3-5-haiku-latest", ModelPricing(80, 400)>>,
       <<"claude-3-opus-latest", ModelPricing(1500, 7500)>>,
       <<"qwen3-235b-a22b-instruct-2507", ModelPricing(0, 0)>>,
       <<"llama-3.3-70b", ModelPricing(0, 0)>>,
       <<"llama3", ModelPricing(0, 0)>>,
       <<"llama3:8b", ModelPricing(0, 0)>>,
       <<"codellama", ModelPricing(0, 0)>> >>

default_pricing == ModelPricing(100, 300)

Reversed(s) == [i \in 1..Len(s) |-> s[Len(s) + 1 - i]]

\* The models of a table are a HashMap with a RandomState of its own: the
\* order in which it iterates its entries is fixed for the table and differs
\* from table to table. Two of the orders are explored.
IterationOrders == {with_defaults, Reversed(with_defaults)}

\* The model names looked up: entries, versioned names with one entry as
\* prefix, versioned names with several, unknown names.
PricedModels ==
    {"gpt-4o", "gpt-4o-2024-08-06", "gpt-4o-mini-2024-07-18", "o1-mini", "o1-mini-2024-09-12",
     "llama3:8b-q4", "mistral", ""}

\* self.models.get(model): the entry with that name.
ExactEntry(entries, model) ==
    {i \in 1..Len(entries) : entries[i][1] = model}

\* PricingTable::get: the exact entry, else the first entry the iteration
\* meets whose name is a prefix of the model name, else the default.
get(entries, model) ==
    IF ExactEntry(entries, model) # {}
    THEN entries[CHOOSE i \in ExactEntry(entries, model) : TRUE][2]
    ELSE LET hits == {i \in 1..Len(entries) : StartsWith(model, entries[i][1])}
         IN  IF hits = {} THEN default_pricing
             ELSE entries[CHOOSE i \in hits : \A j \in hits : i <= j][2]

InitPrice ==
    /\ \E order \in IterationOrders : ptable = Some(order)
    /\ lookups = <<>>
    /\ StatsIdle
    /\ ToolsIdle
    /\ SseIdle
    /\ ProcIdle
    /\ HsIdle
    /\ PatchIdle
    /\ EditIdle
    /\ StopIdle
    /\ BorrowIdle
    /\ PolicyIdle
    /\ PathIdle
    /\ RpcIdle
    /\ AgentIdle

\* Another table is built by with_defaults, as every session does.
NewTable(order) ==
    /\ ptable' = Some(order)
    /\ ptable' # ptable
    /\ UNCHANGED <<lookups, notPrice>>

\* A call of get on the table in use.
GetPricing(model) ==
    /\ Len(lookups) < MaxLookups
    /\ lookups' = Append(lookups, [model |-> model, pricing |-> get(ptable[1], model)])
    /\ UNCHANGED <<ptable, notPrice>>

NextPrice ==
    \/ \E order \in IterationOrders : NewTable(order)
    \/ \E model \in PricedModels : GetPricing(model)

SpecPrice == InitPrice /\ [][NextPrice]_vars

---------------------------------------------------------------------------
(* Claims about the end of a turn and its statistics                        *)

\* C21: a turn that completes without error has invoked the stop hook exactly
\* once, after its loop (never while the loop runs, never in a turn that
\* ends with an error); its result reports force_continue with the prompt p
\* exactly when the hook returned force_continue together with p, and
\* otherwise force_continue = false and no prompt.
C21_StopHookOnce ==
    /\ turn.ret = "ok" <=> turn.stop_calls = 1
    /\ turn.ret # "ok" => (turn.stop_calls = 0 /\ turn.on_stop = None)
    /\ turn.ret = "ok" =>
          /\ pc = "idle"
          /\ turn.force_continue <=>
                (turn.on_stop[1].force_continue /\ turn.on_stop[1].continue_prompt # None)
          /\ turn.force_continue => turn.continue_prompt = turn.on_stop[1].continue_prompt
          /\ ~turn.force_continue => turn.continue_prompt = None

\* A turn that ran to its iteration cap, whose stop hook asked for a
\* continuation without giving a prompt.
C21_Witness ==
    /\ turn.ret = "ok"
    /\ turn.exit = "cap"
    /\ turn.stop_calls = 1
    /\ turn.on_stop = Some([force_continue |-> TRUE, continue_prompt |-> None])
    /\ ~turn.force_continue

\* C22: when a Task call ends, the statistics merged into the caller's are
\* the input_tokens, output_tokens and tool_uses the subagent consumed,
\* however the subagent run ended.
C22_TaskStatsMerged ==
    [][(pc = "sub_end" /\ pc' # "sub_end") =>
          lastTool'[1].sub_stats = Some(sub[1].stats)]_vars

\* The sum of field f over the start value and the stats merged since.
RECURSIVE FieldTotal(_, _, _)
FieldTotal(start, others, f) ==
    IF others = <<>> THEN start[f]
    ELSE FieldTotal(start, SubSeq(others, 1, Len(others) - 1), f) + others[Len(others)][f]

StatFields == {"input_tokens", "output_tokens", "tool_uses"}

\* C23: CommandStats::merge is field-wise addition of input_tokens,
\* output_tokens and tool_uses (in u64 arithmetic: it panics or wraps,
\* whichever the build does, exactly when a sum leaves u64); merging the
\* default stats leaves the receiver unchanged; merging a then b gives what
\* merging their field-wise sum gives.
C23_MergeIsFieldwiseSum ==
    merged # None =>
        LET start  == merged[1].start
            others == merged[1].others
            total  == [f \in StatFields |-> FieldTotal(start, others, f)]
            fits   == \A f \in StatFields : total[f] < U64Modulus
        IN  /\ fits => stats_self = Some(total)
            /\ (~fits /\ overflow_checks) => stats_self = None
            /\ (~fits /\ ~overflow_checks) =>
                   stats_self = Some([f \in StatFields |-> total[f] % U64Modulus])
            /\ (\A i \in 1..Len(others) : others[i] = CommandStatsDefault) =>
                   stats_self = Some(start)
            /\ Len(others) = 2 =>
                   LET sum == merge(others[1], others[2], overflow_checks)
                   IN  sum # None => stats_self = merge(start, sum[1], overflow_checks)

\* Two merges of stats that are not the default, none of them overflowing.
C23_Witness ==
    /\ merged # None
    /\ Len(merged[1].others) = 2
    /\ merged[1].others[1] = [input_tokens |-> 5, output_tokens |-> 0, tool_uses |-> 5]
    /\ merged[1].others[2] = [input_tokens |-> 5, output_tokens |-> 5, tool_uses |-> 5]
    /\ merged[1].start = [input_tokens |-> 5, output_tokens |-> 0, tool_uses |-> 5]
    /\ stats_self = Some([input_tokens |-> 15, output_tokens |-> 5, tool_uses |-> 15])

\* C24: the servers listed have pairwise distinct names; the full_name of
\* each advertised tool is unique across them, and splitting a full_name at
\* its first two dots gives the server and the local name that advertised it.
C24_FullNamesRoute ==
    /\ \A d1, d2 \in advertised : d1.full_name = d2.full_name => d1 = d2
    /\ lastRoute # None =>
          /\ lastRoute[1].parts.server = lastRoute[1].of.server
          /\ lastRoute[1].parts.tool = lastRoute[1].of.name

\* C25: the parser returns the first event of the stream whose data is
\* well-formed JSON answering the request (its id is the request's, or the
\* request has no id), as soon as that event has ended; it returns no other
\* value, and when it reports the end of the stream no such event was sent.
C25_FirstMatchingEvent ==
    sse # None =>
        /\ sse[1].expected # None => sse[1].ret = SseOk(sse[1].expected[1])
        /\ (sse[1].ret # None /\ sse[1].ret[1].ok) => sse[1].expected = Some(sse[1].ret[1].value)
        /\ sse[1].ret = SseErr("ended") => sse[1].expected = None

C27_HealthIffExited ==
    /\ \A i \in 1..Len(health) : health[i].answer # None <=> health[i].exited
    /\ \A i, j \in 1..Len(health) :
           (i < j /\ health[i].exited) => health[j].answer = health[i].answer

\* C28: once the drop of a stdio transport has begun it ends, with the child
\* reaped and the reader thread joined.
C28_DropTerminates ==
    (proc # None /\ proc[1].drop = "join")
        ~> (proc # None /\ proc[1].drop = "dropped" /\ proc[1].child = "reaped"
                /\ proc[1].reader = "joined")

\* C29: initialize is sent first, the notification only after initialize
\* returned Ok, tools/list only after the notification; and sending the
\* notification neither waits for a message of the server nor takes one.
C29_HandshakeOrder ==
    hs # None =>
        /\ hs[1].sent = SubSeq(<<"initialize", "notifications/initialized", "tools/list">>,
                               1, Len(hs[1].sent))
        /\ Len(hs[1].sent) >= 2 => hs[1].init_ok
        /\ hs[1].pc # "notify_wait"
        /\ hs[1].notify = "none"

\* C30: a Patch call with dry_run true leaves every file and directory as
\* it was, whatever the patch, and when it succeeds its result has dry_run
\* true and files_modified 0.
C30_DryRunWritesNothing ==
    [][(lastPatch' # None /\ lastPatch'[1].dry_run = Some(TRUE))
          => /\ pfs' = pfs
             /\ lastPatch'[1].result.success
                  => /\ lastPatch'[1].result.dry_run
                     /\ lastPatch'[1].result.files_modified = 0]_vars

C30_Witness ==
    /\ lastPatch # None
    /\ lastPatch[1].dry_run = Some(TRUE)
    /\ lastPatch[1].result.success
    /\ lastPatch[1].patch.original = Some("/dev/null")
    /\ lastPatch[1].patch.modified = Some("b/n/new")
    /\ lastPatch[1].path = None
    /\ <<"r", "n">> \notin DOMAIN pfs[1]

\* C31: an Edit call on an existing file in which the find of none of its
\* edits occurs returns applied 0 with before_sha256 equal to after_sha256,
\* and leaves the content of the file as it was.
C31_NoMatchNoChange ==
    (lastEdit # None
        /\ \A i \in 1..Len(lastEdit[1].edits) :
              FindStr(lastEdit[1].before, lastEdit[1].edits[i].find) = 0)
    => /\ lastEdit[1].result.error = ""
       /\ lastEdit[1].result.applied = 0
       /\ lastEdit[1].result.before_sha256 = lastEdit[1].result.after_sha256
       /\ efile[1].content = lastEdit[1].before

\* C32: a tool call handled inside a subagent goes through the pre-tool hook
\* as in run_turn: a call the hook refuses gets the hook_blocked error and no
\* tool is run for it.
C32_SubagentCallsHooked ==
    (lastCheck # None /\ lastCheck[1].who = "sub" /\ lastCheck[1].veto)
        => (lastCheck[1].code = "hook_blocked" /\ lastCheck[1].passed = None)

\* C33: a subagent runs a tool only if the tool's name matches, without an
\* argument, a pattern of its spec's allowed_tools; a call of any other tool
\* gets the tool_not_allowed error, with no policy decision, no prompt and
\* no tool run, whether or not the tool was in the subagent's catalog.
C33_OnlyAllowedToolsRun ==
    (lastCheck # None /\ lastCheck[1].who = "sub") =>
        LET c       == lastCheck[1]
            pats    == Agents[c.agent].allowed_tools
            matches == \E i \in 1..Len(pats) : tool_matches(c.tool, pats[i], None)
        IN  /\ c.passed # None => matches
            /\ ~matches => /\ c.code = "tool_not_allowed"
                           /\ c.decision = "none"
                           /\ ~c.read
                           /\ c.passed = None

C33_Witness ==
    /\ lastCheck # None
    /\ lastCheck[1].who = "sub"
    /\ lastCheck[1].agent = "scout"
    /\ lastCheck[1].tool = "mcp.echo.add"
    /\ lastCheck[1].code = "tool_not_allowed"
    /\ cfgMode = "bypassPermissions"

\* C34: whenever run_turn has returned, with Ok or with Err, after any
\* number of turns on the same list, every assistant message with tool calls
\* is followed at once by one tool message per call, in the order of the
\* calls and with their ids, and every tool message answers such a call.
C34_ToolMessagesPaired ==
    pc = "idle" => ToolMessagesInOrder(messages, Len(messages))

C34_Witness ==
    /\ pc = "idle"
    /\ turn.ret = "err"
    /\ Cardinality(UserMessages(messages)) = 2
    /\ messages[Len(messages)].role = "user"
    /\ messages[Len(messages) - 1].role = "tool"

\* C35: the two matchers agree: for every pattern, tool name and optional
\* primary argument, PolicyEngine::rule_matches returns what
\* tool_filter::tool_matches returns.
C35_MatchersAgree ==
    lastMatch # None =>
        tool_matches(lastMatch[1].tool, lastMatch[1].pattern, lastMatch[1].arg)
            = rule_matches(lastMatch[1].pattern, lastMatch[1].tool, lastMatch[1].arg)

\* C36: the text of a response changes the plan state only while the phase is
\* Planning: once a parse has moved the phase to Review, no later response, in
\* the same turn or in a later one, changes the current plan or the phase.
C36_PlanWrittenOnlyInPlanning ==
    [][(pc = "llm" /\ plan_mode' # plan_mode) => plan_mode.phase = "Planning"]_vars

\* C37: the text handed to the stop hook is the content of the last assistant
\* message the current turn has pushed, and none when that message has no
\* text or the turn has pushed no assistant message.
C37_StopTextOfThisTurn ==
    (chatPc = "idle" /\ lastStop # None) =>
        lastStop[1].text =
            IF TurnAssistants = {} THEN None
            ELSE chat[CHOOSE p \in TurnAssistants : \A q \in TurnAssistants : q <= p].content

\* C38: in a turn that is not a planning turn, a call of a tool of the catalog
\* the model was offered, allowed by the policy and not vetoed by the hook,
\* reaches a handler: its result is never the unknown_tool error.
C38_AdvertisedToolsRouted ==
    (lastTool # None /\ lastTool[1].who = "main" /\ ~turn.in_planning_mode
        /\ lastTool[1].name \in turn.tool_schemas
        /\ lastTool[1].gate.proceed /\ lastTool[1].gate.allowed)
    => lastTool[1].code # "unknown_tool"

\* C39: on no path of a turn, the nested path run_turn, Task, run_subagent and
\* its tool dispatch included, is a RefCell of the session borrowed mutably
\* while another borrow of it is live, or borrowed while a mutable borrow of
\* it is live: no borrow panics, and a frame that returns leaves none of its
\* borrows behind.
C39_NoBorrowConflict ==
    /\ ~panicked
    /\ \A i \in 1..Len(held) :
          /\ held[i].depth <= Len(frames)
          /\ \A j \in 1..Len(held) :
                (i # j /\ held[i].c = held[j].c) => (~held[i].mut /\ ~held[j].mut)

\* The subagent started by a Task call of the turn holds the MCP manager
\* mutably for its own tool call.
C39_Witness ==
    /\ ~panicked
    /\ Len(frames) >= 6
    /\ frames[1].r = "run_turn"
    /\ frames[Len(frames)].r = "sub_mcp_call"
    /\ \E i \in 1..Len(held) : held[i].c = "mcp_manager" /\ held[i].mut

\* C40: a lookup selects the exact entry of the model name, else an entry
\* whose name is a prefix of it, else the default; and two lookups of the
\* same model name in tables built by with_defaults select the same pricing.
C40_PricingDeterministic ==
    \A i \in 1..Len(lookups) :
        LET model    == lookups[i].model
            exact    == {e \in 1..Len(with_defaults) : with_defaults[e][1] = model}
            prefixes == {e \in 1..Len(with_defaults) : StartsWith(model, with_defaults[e][1])}
        IN  /\ exact # {} => \E e \in exact : lookups[i].pricing = with_defaults[e][2]
            /\ (exact = {} /\ prefixes # {}) =>
                    \E e \in prefixes : lookups[i].pricing = with_defaults[e][2]
            /\ prefixes = {} => lookups[i].pricing = default_pricing
            /\ \A j \in 1..Len(lookups) :
                    lookups[j].model = model => lookups[j].pricing = lookups[i].pricing

====
